---------------------------- MODULE Spec2Model ----------------------------
(***************************************************************************)
(* Recording-session controllers of the camera node.                       *)
(*                                                                         *)
(* The repository holds four independent controllers, each owning its own  *)
(* state and never sharing it with the others:                             *)
(*   RC   services/recorder/controller.py   RecorderController             *)
(*   RM   soccer_rig/recording.py + main.py RecordingManager and handlers  *)
(*   RS   soccer_rig/state.py + app.py      RigState and handlers          *)
(*   REC  recording.py                      Recorder                       *)
(* A behaviour runs one of them (variable sys, fixed by Init); the         *)
(* variables of the others stay at their initial values.                   *)
(***************************************************************************)
EXTENDS Integers, Sequences, FiniteSets, TLC

(* ------------------------------ bounds -------------------------------- *)
NumClients == 2
MaxSessions == 2
MaxElapsed == 2
MaxClockBack == 1
MaxFreeGb == 11
MaxClock == 1
MaxErrors == 2
MaxCalls == 3
MaxLines == 1

(* ------------------------- program constants -------------------------- *)
TestTargetSeconds == 10
TEMP_LIMIT_C == 85
BATTERY_CRITICAL == 10
duration_minutes_default == 110
free_space_min_gb == 10
delete_after_confirm == FALSE

\* Wall-clock time is counted in ticks of ten seconds.
Seconds(ticks) == ticks * 10

Clients == 1..NumClients
Sids == 1..MaxSessions
\* Session ids callers pass; the i-th session created uses one of the first i.
NameSeq == << "S1", "S2", "S3", "S4" >>
Names == {NameSeq[i] : i \in 1..MaxSessions}
NamesFor(s) == {NameSeq[i] : i \in 1..s}
Programs == {"RC", "RM", "RS", "REC"}
NoReason == "None"

VARIABLES
    sys,          \* the controller this behaviour runs; "END" once the read a
                  \* behaviour observes has returned
    \* ---- RecorderController (services/recorder/controller.py)
    rcSimulate,   \* self.simulate
    rcLock,       \* self._lock: 0 free, else the thread holding it
    rcActive,     \* self._active: 0 (None) or the session
    rcPc,         \* position of every thread (callers and _stop_after timers)
    rcRecord,     \* stop(): the local `record`
    rcSum,        \* stop(): the local `checksum`
    rcOut,        \* what the call leaving the `with` block returns or raises
    rcExc,        \* message of the exception being raised
    rcReports,    \* start(): the local `reports`
    rcElapsed,    \* ticks since each session's started_at
    rcNext,       \* number of the next session to be created
    rcSess,       \* ActiveRecording objects ever created, by session number
    rcProc,       \* state of each session's pipeline process
    rcFile,       \* whether each session's output file exists
    rcManifests,  \* manifests directory: manifest path -> content
    rcWrites,     \* how many times a manifest was written for each session
    rcTakers,     \* how many stop() calls took each session out of _active
    rcFault,      \* sessions whose finalization met an I/O error
    \* ---- RecordingManager (soccer_rig/recording.py) and its handlers (main.py)
    rmMinFree,    \* settings.free_space_min_gb
    rmDelete,     \* settings.delete_after_confirm
    rmFree,       \* free space of the disk, in GB
    rmLock,       \* self._lock: 0 free, else the thread holding it
    rmCurrent,    \* self.current: 0 (None) or the session
    rmStopEvent,  \* self._stop_event: 0 (None) or the Event made for a session
    rmEventSet,   \* whether each session's Event is set
    rmWorker,     \* self._worker: 0 (None) or the session whose thread it is
    rmLast,       \* self._last_manifest: "none" or a manifest path
    rmPc,         \* position of every request handler
    rmJoin,       \* stop_recording(): the local `worker`
    rmOut,        \* what a handler is returning or raising
    rmW,          \* position of each session's _run_recording thread
    rmNext,       \* number of the next session to be created
    rmSess,       \* descriptors ever created, by session number
    rmElapsed,    \* ticks since recording_started_at
    rmFiles,      \* recordings directory: whether each session's file exists
    rmManifests,  \* manifests directory: manifest path -> content
    rmWrites,     \* how many times a manifest was written for each session
    rmFault,      \* sessions whose worker met an I/O error
    \* ---- soccer_rig/state.py (RigState) ----
    rsDelete,        \* config.delete_after_confirm
    rsMinFree,       \* config.free_space_min_gb
    rsFsFree,        \* free GB shutil.disk_usage reports
    rsDisk,          \* camera_status.disk.free_gb
    rsRecording,     \* camera_status.recording
    rsActiveSession, \* camera_status.active_session
    rsActiveId,      \* active_recording_id
    rsRecordings,    \* recordings: filename -> RecordingInfo
    rsOrder,         \* the keys of recordings in the order of the dict
    rsClock,         \* the wall clock, in seconds
    rsPc,            \* position of each request thread
    rsLocal,         \* the record run_test_recording holds
    \* ---- recording.py (Recorder) ----
    recProcess,      \* _process: 0, or the session whose Popen it is
    recProc,         \* state of each session's pipeline process
    recCode,         \* returncode of each session's pipeline process
    recMonitor,      \* _monitor_thread: 0, or the session it reads
    recAlive,        \* whether each session's monitor thread runs
    recErrors,       \* _metrics.encode_errors
    recLastError,    \* last_pipeline_error
    recStarted,      \* whether _start_time is set
    recDest,         \* _current_destination: 0, or the session's file
    recNext,         \* number of the next session
    recPc,           \* position of each calling thread
    recOut,          \* how each thread's last call ended
    recLocal,        \* the destination a start_recording call holds
    recEntries,      \* manifest.entries
    recLaunched,     \* sessions whose pipeline was launched
    recPipe,         \* error lines of each session's stderr not yet read
    recEmitted,      \* error lines each session's pipeline has written
    \* ---- one call of a function or read-only method ----
    fnCall,          \* the function called last
    fnArgs,          \* what it was called with and what it found
    fnRet,           \* what it returned or raised
    \* ---- services/sync/agent.py (SyncAgent) and the node that owns it ----
    syNode,          \* the program: "RigState" (state.py) or "main" (main.py, status.py)
    syIds,           \* camera_id and ntp_master_id of the configuration
    syBoot,          \* what they were at start-up
    syRole,          \* SyncAgent.role
    syMasterHost,    \* whether SyncAgent.master_host is set
    syEnv,           \* the tools of the host: systemctl, chronyc and its output
    syRunning,       \* whether chronyd runs
    sySources,       \* the sources chronyd is configured with
    syLog            \* the calls made, with what each returned

rcVars == <<rcSimulate, rcLock, rcActive, rcPc, rcRecord, rcSum, rcOut, rcExc,
            rcReports, rcElapsed, rcNext, rcSess, rcProc, rcFile, rcManifests, rcWrites, rcTakers,
            rcFault>>

rmVars == <<rmDelete, rmMinFree, rmFree, rmLock, rmCurrent, rmStopEvent, rmEventSet, rmWorker,
            rmLast, rmPc, rmJoin, rmOut, rmW, rmNext, rmSess, rmElapsed, rmFiles,
            rmManifests, rmWrites, rmFault>>

rsVars == <<rsDelete, rsMinFree, rsFsFree, rsDisk, rsRecording, rsActiveSession,
            rsActiveId, rsRecordings, rsOrder, rsClock, rsPc, rsLocal>>
recVars == <<recProcess, recProc, recCode, recMonitor, recAlive, recErrors, recLastError,
             recStarted, recDest, recNext, recPc, recOut, recLocal, recEntries,
             recLaunched, recPipe, recEmitted>>
fnVars == <<fnCall, fnArgs, fnRet>>
syVars == <<syNode, syIds, syBoot, syRole, syMasterHost, syEnv, syRunning, sySources, syLog>>
vars == <<sys, rcVars, rmVars, rsVars, recVars, fnVars, syVars>>

(* ======================================================================= *)
(*                 services/recorder/gates.py                              *)
(* ======================================================================= *)

\* What the environment holds when the gates are evaluated.
ThermalReadings == {[st |-> "absent", c |-> 0], [st |-> "unreadable", c |-> 0],
                    [st |-> "value", c |-> 84], [st |-> "value", c |-> 85]}
BatteryReadings == {[st |-> "absent", pct |-> 0], [st |-> "unreadable", pct |-> 0],
                    [st |-> "value", pct |-> 10], [st |-> "value", pct |-> 11]}
FreeGbValues == {8, 10, 12}
MinFreeGbValues == {10}
\* mkdir: path.mkdir(parents=True, exist_ok=True) succeeds; usage:
\* shutil.disk_usage(path) succeeds.
GateEnvs == [camera : BOOLEAN, mkdir : BOOLEAN, writable : BOOLEAN, usage : BOOLEAN,
             free : FreeGbValues, thermal : ThermalReadings, battery : BatteryReadings]
NoException == "None"
GateReport(ok, reason) == [ok |-> ok, reason |-> reason]

camera_present(env) ==
    IF env.camera THEN GateReport(TRUE, NoReason)
    ELSE GateReport(FALSE, "Camera device missing")

nvme_writable(env) ==
    IF env.writable THEN GateReport(TRUE, NoReason)
    ELSE GateReport(FALSE, "NVMe not writable")

free_space_ok(env, minimum_gb) ==
    IF env.free >= minimum_gb THEN GateReport(TRUE, NoReason)
    ELSE GateReport(FALSE, "Low disk")

temperature_safe(env) ==
    IF env.thermal.st = "absent" THEN GateReport(TRUE, "Temperature sensor unavailable")
    ELSE IF env.thermal.st = "unreadable" THEN GateReport(FALSE, "Temperature read failed")
    ELSE IF env.thermal.c < TEMP_LIMIT_C THEN GateReport(TRUE, NoReason)
    ELSE GateReport(FALSE, "Overheating")

\* A variant that requires the battery sensor.
battery_required(env) ==
    IF env.battery.st = "absent" THEN GateReport(FALSE, "Battery sensor unavailable")
    ELSE IF env.battery.st = "unreadable" THEN GateReport(FALSE, "Battery read failed")
    ELSE IF env.battery.pct > BATTERY_CRITICAL THEN GateReport(TRUE, NoReason)
    ELSE GateReport(FALSE, "Battery critically low")

battery_safe(env) ==
    IF env.battery.st = "absent" THEN GateReport(TRUE, "Battery sensor unavailable")
    ELSE IF env.battery.st = "unreadable" THEN GateReport(FALSE, "Battery read failed")
    ELSE IF env.battery.pct > BATTERY_CRITICAL THEN GateReport(TRUE, NoReason)
    ELSE GateReport(FALSE, "Battery critically low")

\* How a call ends: with a value, or with an exception and no value.
Returned(value) == [exc |-> NoException, value |-> value]
Raised(exc) == [exc |-> exc, value |-> << >>]

\* nvme_writable: path.mkdir(parents=True, exist_ok=True) is called before the
\* try block, so its OSError leaves the function.
nvme_writable_raises(env) == IF ~env.mkdir THEN "OSError" ELSE NoException

\* free_space_ok: shutil.disk_usage(path) is called outside any try block.
free_space_ok_raises(env) == IF ~env.usage THEN "OSError" ELSE NoException

\* all_gates builds its list in order: the first check that raises ends it.
all_gates_raises(env) ==
    IF nvme_writable_raises(env) # NoException THEN nvme_writable_raises(env)
    ELSE free_space_ok_raises(env)

\* The reasons the two sensor gates give for a missing sensor file.
SensorUnavailable == {"Temperature sensor unavailable", "Battery sensor unavailable"}

all_gates(env, minimum_gb) ==
    << camera_present(env), nvme_writable(env), free_space_ok(env, minimum_gb),
       temperature_safe(env), battery_safe(env) >>

(* ======================================================================= *)
(*                 services/recorder/controller.py                         *)
(* ======================================================================= *)

RcTimerOf(s) == NumClients + s
RcTimers == {RcTimerOf(s) : s \in Sids}
RcThreads == Clients \cup RcTimers

NoSession == [name |-> "S1", test |-> FALSE]
NoManifest == [sid |-> 0, checksum |-> "none", duration |-> 0]
NoSum == [checksum |-> "none", duration |-> 0]
NoReports == << >>

RECURSIVE SelectSeqIdx(_, _, _)
\* The subsequence of seq at the indexes i >= from with keep[i].
SelectSeqIdx(seq, keep, from) ==
    IF from > Len(seq) THEN << >>
    ELSE (IF keep[from] THEN << seq[from] >> ELSE << >>)
         \o SelectSeqIdx(seq, keep, from + 1)

\* A variant that keeps the reason of the first failed gate only.
FirstGateFailure(reports) ==
    SelectSeqIdx([i \in 1..Len(reports) |-> reports[i].reason],
                 [i \in 1..Len(reports) |->
                     ~reports[i].ok /\ \A j \in 1..(i - 1) : reports[j].ok], 1)

\* failures = [r.reason for r in reports if not r.ok]
GateFailures(reports) ==
    SelectSeqIdx([i \in 1..Len(reports) |-> reports[i].reason],
                 [i \in 1..Len(reports) |-> ~reports[i].ok], 1)

\* "; ".join(reason for reason in failures if reason): the message is kept
\* as the sequence of the joined reasons.
JoinReasons(failures) ==
    SelectSeqIdx(failures, [i \in 1..Len(failures) |-> failures[i] # NoReason], 1)

\* A variant without mutual exclusion.
RcLockIgnored(t) == TRUE

\* threading.Lock: `with self._lock:` is entered only while no thread holds it.
RcLockFree(t) == rcLock = 0

RcUnlock(t) == rcLock' = IF rcLock = t THEN 0 ELSE rcLock

RcAlive(s) == rcProc[s] \in {"running", "termsent", "killsent"}

\* A return or a raise inside the `with` block: the lock is still held.
RcLeaving(t, out, exc) ==
    /\ rcPc' = [rcPc EXCEPT ![t] = "leave"]
    /\ rcOut' = [rcOut EXCEPT ![t] = out]
    /\ rcExc' = [rcExc EXCEPT ![t] = exc]

\* A call that ends outside the lock: a caller is idle again, a timer thread ends.
RcDone(t) == IF t \in Clients THEN "idle" ELSE "dead"

\* start(): `with self._lock:` entered;
\* if self._active: raise RuntimeError("recording already active")
RC_start_enter(t) ==
    /\ sys = "RC" /\ t \in Clients
    /\ rcPc[t] = "idle"
    /\ rcNext <= MaxSessions
    /\ RcLockFree(t)
    /\ rcLock' = t
    /\ \/ /\ rcActive # 0
          /\ RcLeaving(t, "active", << "recording already active" >>)
       \/ /\ rcActive = 0
          /\ rcPc' = [rcPc EXCEPT ![t] = "start_body"]
          /\ UNCHANGED <<rcOut, rcExc>>
    /\ UNCHANGED <<rmVars, rsVars, recVars, fnVars, syVars>>
    /\ UNCHANGED <<sys, rcSimulate, rcActive, rcRecord, rcSum, rcReports, rcElapsed,
                   rcNext, rcSess, rcProc, rcFile, rcManifests, rcWrites, rcTakers,
                   rcFault>>

\* start(): reports = self.gates(minimum_free_gb); a gate that raises, a
\* failed gate, an unsupported codec or an invalid resolution ends the call
\* with an exception.
RC_start_reject(t) ==
    /\ sys = "RC" /\ rcPc[t] = "start_body"
    /\ \E env \in GateEnvs, minimum_free_gb \in MinFreeGbValues :
         LET reports == all_gates(env, minimum_free_gb)
             failures == GateFailures(reports) IN
         \/ /\ all_gates_raises(env) # NoException
            /\ RcLeaving(t, "raised", << all_gates_raises(env) >>)
            /\ UNCHANGED rcReports
         \/ /\ all_gates_raises(env) = NoException
            /\ rcReports' = [rcReports EXCEPT ![t] = reports]
            /\ \/ /\ failures # << >>
                  /\ RcLeaving(t, "gates", JoinReasons(failures))
               \/ /\ failures = << >>
                  /\ \/ RcLeaving(t, "codec", << "unsupported codec" >>)
                     \/ RcLeaving(t, "resolution", << "invalid resolution" >>)
    /\ UNCHANGED <<rmVars, rsVars, recVars, fnVars, syVars>>
    /\ UNCHANGED <<sys, rcSimulate, rcLock, rcActive, rcRecord, rcSum, rcElapsed,
                   rcNext, rcSess, rcProc, rcFile, rcManifests, rcWrites, rcTakers,
                   rcFault>>

\* start(): the gates pass; the placeholder file or the pipeline process and
\* the _stop_after thread, then self._active = ActiveRecording(...).
RC_start_launch(t) ==
    /\ sys = "RC" /\ rcPc[t] = "start_body"
    /\ \E env \in GateEnvs, minimum_free_gb \in MinFreeGbValues,
          session_id \in NamesFor(rcNext), test_mode \in BOOLEAN :
         LET s == rcNext
             reports == all_gates(env, minimum_free_gb)
             target_duration == IF test_mode THEN TestTargetSeconds ELSE 0 IN
         /\ all_gates_raises(env) = NoException
         /\ GateFailures(reports) = << >>
         /\ rcReports' = [rcReports EXCEPT ![t] = reports]
         /\ rcSess' = [rcSess EXCEPT ![s] = [name |-> session_id, test |-> test_mode]]
         /\ IF rcSimulate
            THEN /\ rcFile' = [rcFile EXCEPT ![s] = TRUE]
                 /\ rcProc' = [rcProc EXCEPT ![s] = "none"]
                 /\ rcPc' = [rcPc EXCEPT ![t] = "leave"]
            ELSE /\ rcFile' = rcFile
                 /\ rcProc' = [rcProc EXCEPT ![s] = "running"]
                 /\ rcPc' = [rcPc EXCEPT ![t] = "leave",
                                         ![RcTimerOf(s)] =
                                            IF target_duration # 0 THEN "sleep" ELSE @]
         /\ rcActive' = s
         /\ rcNext' = s + 1
    /\ rcOut' = [rcOut EXCEPT ![t] = "ok"]
    /\ UNCHANGED <<rmVars, rsVars, recVars, fnVars, syVars>>
    /\ UNCHANGED <<sys, rcSimulate, rcLock, rcRecord, rcSum, rcExc, rcElapsed,
                   rcManifests, rcWrites, rcTakers, rcFault>>

\* The `with self._lock:` block is left by a return or a raise: the lock is
\* released and the caller has its result.
RC_leave(t) ==
    /\ sys = "RC" /\ rcPc[t] = "leave"
    /\ RcUnlock(t)
    /\ rcPc' = [rcPc EXCEPT ![t] = RcDone(t)]
    /\ rcOut' = [rcOut EXCEPT ![t] = "none"]
    /\ rcExc' = [rcExc EXCEPT ![t] = << >>]
    /\ rcReports' = [rcReports EXCEPT ![t] = NoReports]
    /\ UNCHANGED <<rmVars, rsVars, recVars, fnVars, syVars>>
    /\ UNCHANGED <<sys, rcSimulate, rcActive, rcRecord, rcSum, rcElapsed,
                   rcNext, rcSess, rcProc, rcFile, rcManifests, rcWrites, rcTakers,
                   rcFault>>

\* A session whose elapsed time is still read: by the stop() that will compute
\* its duration, or by its sleeping _stop_after thread.
RcTimed(s, pc) ==
    /\ s < rcNext
    /\ \/ rcActive = s
       \/ \E t \in RcThreads :
            rcRecord[t] = s /\ pc[t] \in {"stop_clear", "stop_term", "stop_wait", "stop_sum"}
       \/ pc[RcTimerOf(s)] = "sleep"

\* The elapsed time of a session nobody reads any more is not tracked.
RcForget(pc) == [s \in Sids |-> IF RcTimed(s, pc) THEN rcElapsed[s] ELSE 0]

\* stop(): `with self._lock:` entered;
\* if not self._active: raise RuntimeError("no active recording"); record = self._active
RcStopEnter(t) ==
    /\ RcLockFree(t)
    /\ rcLock' = t
    /\ \/ /\ rcActive = 0
          /\ RcLeaving(t, "noactive", << "no active recording" >>)
          /\ UNCHANGED rcRecord
       \/ /\ rcActive # 0
          /\ rcRecord' = [rcRecord EXCEPT ![t] = rcActive]
          /\ rcPc' = [rcPc EXCEPT ![t] = "stop_clear"]
          /\ UNCHANGED <<rcOut, rcExc>>
    /\ rcElapsed' = RcForget(rcPc')
    /\ UNCHANGED <<rmVars, rsVars, recVars, fnVars, syVars>>
    /\ UNCHANGED <<sys, rcSimulate, rcActive, rcSum, rcReports,
                   rcNext, rcSess, rcProc, rcFile, rcManifests, rcWrites, rcTakers,
                   rcFault>>

\* stop() called by a client.
RC_stop_enter(t) ==
    /\ sys = "RC" /\ t \in Clients
    /\ rcPc[t] = "idle"
    /\ RcStopEnter(t)

\* _stop_after(seconds): time.sleep(seconds) is over, self.stop() is called.
RC_stop_after(s) ==
    /\ sys = "RC" /\ rcPc[RcTimerOf(s)] = "sleep"
    /\ Seconds(rcElapsed[s]) >= TestTargetSeconds
    /\ RcStopEnter(RcTimerOf(s))

\* stop(): self._active = None; the `with` block ends.
RC_stop_clear(t) ==
    /\ sys = "RC" /\ rcPc[t] = "stop_clear"
    /\ rcActive' = 0
    /\ RcUnlock(t)
    /\ rcTakers' = [rcTakers EXCEPT ![rcRecord[t]] = @ + 1]
    /\ rcPc' = [rcPc EXCEPT ![t] = "stop_term"]
    /\ UNCHANGED <<rmVars, rsVars, recVars, fnVars, syVars>>
    /\ UNCHANGED <<sys, rcSimulate, rcRecord, rcSum, rcOut, rcExc, rcReports,
                   rcElapsed, rcNext, rcSess, rcProc, rcFile, rcManifests, rcWrites,
                   rcFault>>

\* stop(): if record.process: record.process.terminate()
RC_stop_terminate(t) ==
    /\ sys = "RC" /\ rcPc[t] = "stop_term"
    /\ LET s == rcRecord[t] IN
       \/ /\ rcProc[s] = "none"
          /\ rcPc' = [rcPc EXCEPT ![t] = "stop_sum"]
          /\ UNCHANGED rcProc
       \/ /\ rcProc[s] # "none"
          /\ rcProc' = [rcProc EXCEPT ![s] = IF @ = "running" THEN "termsent" ELSE @]
          /\ rcPc' = [rcPc EXCEPT ![t] = "stop_wait"]
    /\ UNCHANGED <<rmVars, rsVars, recVars, fnVars, syVars>>
    /\ UNCHANGED <<sys, rcSimulate, rcLock, rcActive, rcRecord, rcSum, rcOut, rcExc,
                   rcReports, rcElapsed, rcNext, rcSess, rcFile, rcManifests,
                   rcWrites, rcTakers, rcFault>>

\* stop(): record.process.wait(timeout=5) returns once the process has
\* exited; otherwise TimeoutExpired is raised and record.process.kill() sends
\* SIGKILL, which returns without waiting for the process.
RC_stop_wait(t) ==
    /\ sys = "RC" /\ rcPc[t] = "stop_wait"
    /\ LET s == rcRecord[t] IN
       \/ /\ rcProc[s] = "exited"
          /\ UNCHANGED rcProc
       \/ /\ rcProc[s] # "exited"
          /\ rcProc' = [rcProc EXCEPT ![s] = "killsent"]
    /\ rcPc' = [rcPc EXCEPT ![t] = "stop_sum"]
    /\ UNCHANGED <<rmVars, rsVars, recVars, fnVars, syVars>>
    /\ UNCHANGED <<sys, rcSimulate, rcLock, rcActive, rcRecord, rcSum, rcOut, rcExc,
                   rcReports, rcElapsed, rcNext, rcSess, rcFile, rcManifests,
                   rcWrites, rcTakers, rcFault>>

\* _checksum(path): None without a file, else the digest of what the file
\* holds at this moment.
RcChecksum(s) == IF ~rcFile[s] THEN "null" ELSE "sha256"

\* stop(): duration = int((now - record.started_at).total_seconds());
\* checksum = self._checksum(record.file_path), or reading the file fails.
RC_stop_checksum(t) ==
    /\ sys = "RC" /\ rcPc[t] = "stop_sum"
    /\ LET s == rcRecord[t] IN
       \/ /\ rcSum' = [rcSum EXCEPT ![t] = [checksum |-> RcChecksum(s),
                                            duration |-> Seconds(rcElapsed[s])]]
          /\ rcPc' = [rcPc EXCEPT ![t] = "stop_write"]
          /\ UNCHANGED <<rcRecord, rcFault>>
       \/ /\ rcFile[s]
          /\ rcPc' = [rcPc EXCEPT ![t] = RcDone(t)]
          /\ rcRecord' = [rcRecord EXCEPT ![t] = 0]
          /\ rcFault' = rcFault \cup {s}
          /\ UNCHANGED rcSum
    /\ rcElapsed' = RcForget(rcPc')
    /\ UNCHANGED <<rmVars, rsVars, recVars, fnVars, syVars>>
    /\ UNCHANGED <<sys, rcSimulate, rcLock, rcActive, rcOut, rcExc, rcReports,
                   rcNext, rcSess, rcProc, rcFile, rcManifests, rcWrites,
                   rcTakers>>

\* stop(): write_manifest(manifest, record.manifest_path); return, or the
\* write fails.
RC_stop_write(t) ==
    /\ sys = "RC" /\ rcPc[t] = "stop_write"
    /\ LET s == rcRecord[t] IN
       \/ /\ rcManifests' = [rcManifests EXCEPT ![rcSess[s].name] =
                               [sid |-> s, checksum |-> rcSum[t].checksum,
                                duration |-> rcSum[t].duration]]
          /\ rcWrites' = [rcWrites EXCEPT ![s] = @ + 1]
          /\ UNCHANGED rcFault
       \/ /\ rcFault' = rcFault \cup {s}
          /\ UNCHANGED <<rcManifests, rcWrites>>
    /\ rcPc' = [rcPc EXCEPT ![t] = RcDone(t)]
    /\ rcSum' = [rcSum EXCEPT ![t] = NoSum]
    /\ rcRecord' = [rcRecord EXCEPT ![t] = 0]
    /\ UNCHANGED <<rmVars, rsVars, recVars, fnVars, syVars>>
    /\ UNCHANGED <<sys, rcSimulate, rcLock, rcActive, rcOut, rcExc, rcReports,
                   rcElapsed, rcNext, rcSess, rcProc, rcFile, rcTakers>>

\* The pipeline process (bash -lc "libcamera-vid ... | ffmpeg ... destination")
\* ends: by itself, or after SIGTERM or SIGKILL reached it.
RC_pipeline_exit(s) ==
    /\ sys = "RC" /\ RcAlive(s)
    /\ rcProc' = [rcProc EXCEPT ![s] = "exited"]
    /\ UNCHANGED <<rmVars, rsVars, recVars, fnVars, syVars>>
    /\ UNCHANGED <<sys, rcSimulate, rcLock, rcActive, rcPc, rcRecord, rcSum,
                   rcOut, rcExc, rcReports, rcElapsed, rcNext, rcSess, rcFile,
                   rcManifests, rcWrites, rcTakers, rcFault>>

\* The running pipeline creates its destination file.
RC_pipeline_output(s) ==
    /\ sys = "RC" /\ RcAlive(s) /\ ~rcFile[s]
    /\ rcFile' = [rcFile EXCEPT ![s] = TRUE]
    /\ UNCHANGED <<rmVars, rsVars, recVars, fnVars, syVars>>
    /\ UNCHANGED <<sys, rcSimulate, rcLock, rcActive, rcPc, rcRecord, rcSum,
                   rcOut, rcExc, rcReports, rcElapsed, rcNext, rcSess, rcProc,
                   rcManifests, rcWrites, rcTakers, rcFault>>

\* Wall-clock time passes.
RC_tick ==
    /\ sys = "RC"
    /\ \E s \in Sids : RcTimed(s, rcPc) /\ rcElapsed[s] < MaxElapsed
    /\ rcElapsed' = [s \in Sids |-> IF RcTimed(s, rcPc) /\ rcElapsed[s] < MaxElapsed
                                    THEN rcElapsed[s] + 1 ELSE rcElapsed[s]]
    /\ UNCHANGED <<rmVars, rsVars, recVars, fnVars, syVars>>
    /\ UNCHANGED <<sys, rcSimulate, rcLock, rcActive, rcPc, rcRecord, rcSum,
                   rcOut, rcExc, rcReports, rcNext, rcSess, rcProc, rcFile,
                   rcManifests, rcWrites, rcTakers, rcFault>>

\* The system clock is set back (datetime.now(timezone.utc) is the wall clock,
\* which the time-sync daemon or an operator may step): every later reading
\* of now - started_at is smaller.
RC_clock_back ==
    /\ sys = "RC"
    /\ \E s \in Sids : RcTimed(s, rcPc)
    /\ \A s \in Sids : RcTimed(s, rcPc) => rcElapsed[s] > -MaxClockBack
    /\ rcElapsed' = [s \in Sids |-> IF RcTimed(s, rcPc) THEN rcElapsed[s] - 1
                                    ELSE rcElapsed[s]]
    /\ UNCHANGED <<rmVars, rsVars, recVars, fnVars, syVars>>
    /\ UNCHANGED <<sys, rcSimulate, rcLock, rcActive, rcPc, rcRecord, rcSum,
                   rcOut, rcExc, rcReports, rcNext, rcSess, rcProc, rcFile,
                   rcManifests, rcWrites, rcTakers, rcFault>>

RcInit ==
    /\ rcSimulate \in BOOLEAN
    /\ rcLock = 0
    /\ rcActive = 0
    /\ rcPc = [t \in RcThreads |-> IF t \in Clients THEN "idle" ELSE "unborn"]
    /\ rcRecord = [t \in RcThreads |-> 0]
    /\ rcSum = [t \in RcThreads |-> NoSum]
    /\ rcOut = [t \in RcThreads |-> "none"]
    /\ rcExc = [t \in RcThreads |-> << >>]
    /\ rcReports = [t \in RcThreads |-> NoReports]
    /\ rcElapsed = [s \in Sids |-> 0]
    /\ rcNext = 1
    /\ rcSess = [s \in Sids |-> NoSession]
    /\ rcProc = [s \in Sids |-> "unborn"]
    /\ rcFile = [s \in Sids |-> FALSE]
    /\ rcManifests = [n \in Names |-> NoManifest]
    /\ rcWrites = [s \in Sids |-> 0]
    /\ rcTakers = [s \in Sids |-> 0]
    /\ rcFault = {}

RcNext ==
    \/ RC_tick
    \/ \E t \in Clients : RC_start_enter(t) \/ RC_stop_enter(t)
    \/ \E s \in Sids : RC_stop_after(s) \/ RC_pipeline_exit(s) \/ RC_pipeline_output(s)
    \/ \E t \in RcThreads :
          \/ RC_start_reject(t) \/ RC_start_launch(t) \/ RC_leave(t)
          \/ RC_stop_clear(t) \/ RC_stop_terminate(t) \/ RC_stop_wait(t)
          \/ RC_stop_checksum(t) \/ RC_stop_write(t)

(* ======================================================================= *)
(*        soccer_rig/recording.py, and its handlers in soccer_rig/main.py   *)
(* ======================================================================= *)

\* Free space the disk may show; a deleted recording gives one GB back.
FreeRange == (free_space_min_gb - 1)..MaxFreeGb

\* Values a configuration update gives free_space_min_gb.
MinFreeChoices == {free_space_min_gb, free_space_min_gb + 1}
FreeAfterUnlink(free) == IF free < MaxFreeGb THEN free + 1 ELSE free

NoDescriptor == [name |-> "S1", test |-> FALSE]
NoRmManifest == [sid |-> 0, checksum |-> "none", duration |-> 0, offloaded |-> FALSE]

\* A variant without mutual exclusion.
RmLockIgnored(t) == TRUE

\* threading.Lock: `with self._lock:` is entered only while no thread holds it.
RmLockFree(t) == rmLock = 0

RmUnlock(t) == rmLock' = IF rmLock = t THEN 0 ELSE rmLock

RmWorkerOf(s) == NumClients + s

\* duration_seconds = 10 if test_mode else (duration_minutes or default) * 60
RmTargetSeconds(test_mode) ==
    IF test_mode THEN TestTargetSeconds ELSE duration_minutes_default * 60

RmLeaving(t, out) ==
    /\ rmPc' = [rmPc EXCEPT ![t] = "leave"]
    /\ rmOut' = [rmOut EXCEPT ![t] = out]

\* The handler answers: out is the answer's kind, which the state keeps no
\* trace of.
RmReturning(t, out) ==
    /\ rmPc' = [rmPc EXCEPT ![t] = "idle"]
    /\ UNCHANGED rmOut

\* start_recording(): `with self._lock:` entered;
\* if self.current: raise RuntimeError("recording already active")
RM_start_enter(t) ==
    /\ sys = "RM" /\ rmPc[t] = "idle"
    /\ rmNext <= MaxSessions
    /\ RmLockFree(t)
    /\ rmLock' = t
    /\ \/ /\ rmCurrent # 0
          /\ RmLeaving(t, "active")
       \/ /\ rmCurrent = 0
          /\ rmPc' = [rmPc EXCEPT ![t] = "start_body"]
          /\ UNCHANGED rmOut
    /\ UNCHANGED <<rcVars, rsVars, recVars, fnVars, syVars>>
    /\ UNCHANGED <<sys, rmDelete, rmMinFree, rmFree, rmCurrent, rmStopEvent, rmEventSet, rmWorker,
                   rmLast, rmJoin, rmW, rmNext, rmSess, rmElapsed, rmFiles,
                   rmManifests, rmWrites, rmFault>>

\* _assert_disk_space(): free_gb < self.settings.free_space_min_gb raises.
RmDiskSpaceOk(free_gb) == ~(free_gb < rmMinFree)

\* start_recording(): _assert_disk_space() or _assert_camera_available() raises.
RM_start_reject(t) ==
    /\ sys = "RM" /\ rmPc[t] = "start_body"
    /\ \/ /\ ~RmDiskSpaceOk(rmFree)
          /\ RmLeaving(t, "nospace")
       \/ /\ RmDiskSpaceOk(rmFree)
          /\ RmLeaving(t, "unwritable")
    /\ UNCHANGED <<rcVars, rsVars, recVars, fnVars, syVars>>
    /\ UNCHANGED <<sys, rmDelete, rmMinFree, rmFree, rmLock, rmCurrent, rmStopEvent, rmEventSet,
                   rmWorker, rmLast, rmJoin, rmW, rmNext, rmSess, rmElapsed, rmFiles,
                   rmManifests, rmWrites, rmFault>>

\* start_recording(): the descriptor becomes self.current,
\* recording_started_at = now, the Event and the worker thread are created and
\* the thread is started.
RM_start_launch(t) ==
    /\ sys = "RM" /\ rmPc[t] = "start_body"
    /\ RmDiskSpaceOk(rmFree)
    /\ \E session_id \in NamesFor(rmNext), test_mode \in BOOLEAN :
         LET s == rmNext IN
         /\ rmSess' = [rmSess EXCEPT ![s] = [name |-> session_id, test |-> test_mode]]
         /\ rmCurrent' = s
         /\ rmStopEvent' = s
         /\ rmEventSet' = [rmEventSet EXCEPT ![s] = FALSE]
         /\ rmWorker' = s
         /\ rmW' = [rmW EXCEPT ![s] = "begin"]
         /\ rmNext' = s + 1
    /\ rmElapsed' = 0
    /\ RmLeaving(t, "ok")
    /\ UNCHANGED <<rcVars, rsVars, recVars, fnVars, syVars>>
    /\ UNCHANGED <<sys, rmDelete, rmMinFree, rmFree, rmLock, rmLast, rmJoin, rmFiles,
                   rmManifests, rmWrites, rmFault>>

\* The `with self._lock:` block of start_recording() or stop_recording() is
\* left with an answer for the handler.
RM_leave(t) ==
    /\ sys = "RM" /\ rmPc[t] = "leave"
    /\ RmUnlock(t)
    /\ rmPc' = [rmPc EXCEPT ![t] = "idle"]
    /\ rmOut' = [rmOut EXCEPT ![t] = "none"]
    /\ UNCHANGED <<rcVars, rsVars, recVars, fnVars, syVars>>
    /\ UNCHANGED <<sys, rmDelete, rmMinFree, rmFree, rmCurrent, rmStopEvent, rmEventSet, rmWorker,
                   rmLast, rmJoin, rmW, rmNext, rmSess, rmElapsed, rmFiles,
                   rmManifests, rmWrites, rmFault>>

\* _run_recording(): the asserts, then path.touch(), which may fail; the file
\* is opened for appending.
RM_worker_begin(s) ==
    /\ sys = "RM" /\ rmW[s] = "begin"
    /\ \/ /\ rmCurrent # 0 /\ rmStopEvent # 0
          /\ rmW' = [rmW EXCEPT ![s] = "loop"]
          /\ rmFiles' = [rmFiles EXCEPT ![s] = TRUE]
          /\ UNCHANGED rmFault
       \/ /\ rmW' = [rmW EXCEPT ![s] = "dead"]
          /\ rmFault' = rmFault \cup {s}
          /\ UNCHANGED rmFiles
    /\ UNCHANGED <<rcVars, rsVars, recVars, fnVars, syVars>>
    /\ UNCHANGED <<sys, rmDelete, rmMinFree, rmFree, rmLock, rmCurrent, rmStopEvent, rmEventSet,
                   rmWorker, rmLast, rmPc, rmJoin, rmOut, rmNext, rmSess, rmElapsed,
                   rmManifests, rmWrites>>

\* _run_recording(): the write loop is left, and the file closed, once the
\* Event is set, once elapsed >= target after a write, or when a write fails;
\* `finally` then reads the Event again. self._stop_event is read from the
\* manager each time. The worker is at "finalize" after a regular exit and
\* at "failed" after a failed write; both go on to _finalize_recording().
RM_worker_loop_exit(s) ==
    /\ sys = "RM" /\ rmW[s] = "loop"
    /\ \/ /\ rmStopEvent = 0
          /\ rmW' = [rmW EXCEPT ![s] = "dead"]
       \/ /\ rmStopEvent # 0
          /\ rmEventSet[rmStopEvent]
          /\ rmW' = [rmW EXCEPT ![s] = "finalize"]
       \/ /\ rmStopEvent # 0
          /\ ~rmEventSet[rmStopEvent]
          /\ Seconds(rmElapsed) >= RmTargetSeconds(rmSess[s].test)
          /\ rmW' = [rmW EXCEPT ![s] = "finalize"]
       \/ /\ rmStopEvent # 0
          /\ ~rmEventSet[rmStopEvent]
          /\ rmW' = [rmW EXCEPT ![s] = "failed"]
    /\ UNCHANGED <<rcVars, rsVars, recVars, fnVars, syVars>>
    /\ UNCHANGED <<sys, rmDelete, rmMinFree, rmFree, rmLock, rmCurrent, rmStopEvent, rmEventSet,
                   rmWorker, rmLast, rmPc, rmJoin, rmOut, rmNext, rmSess, rmElapsed,
                   rmFiles, rmManifests, rmWrites, rmFault>>

\* _compute_checksum(path): None without a file, else the digest of the file.
RmComputeChecksum(s) == IF ~rmFiles[s] THEN "null" ELSE "sha256"

\* _finalize_recording(auto), all of it inside `with self._lock:`; then the
\* thread ends.
RM_worker_finalize(s) ==
    /\ sys = "RM" /\ rmW[s] \in {"finalize", "failed"}
    /\ RmLockFree(RmWorkerOf(s))
    /\ rmW' = [rmW EXCEPT ![s] = "dead"]
    /\ \/ /\ rmCurrent = 0
          /\ UNCHANGED <<rmCurrent, rmStopEvent, rmWorker, rmLast, rmElapsed,
                         rmManifests, rmWrites, rmFault>>
       \/ /\ rmCurrent # 0
          /\ rmManifests' = [rmManifests EXCEPT ![rmSess[rmCurrent].name] =
                               [sid |-> rmCurrent,
                                checksum |-> RmComputeChecksum(rmCurrent),
                                duration |-> Seconds(rmElapsed),
                                offloaded |-> FALSE]]
          /\ rmWrites' = [rmWrites EXCEPT ![rmCurrent] = @ + 1]
          /\ rmLast' = rmSess[rmCurrent].name
          /\ rmCurrent' = 0
          /\ rmElapsed' = 0
          /\ rmStopEvent' = 0
          /\ rmWorker' = 0
          /\ UNCHANGED rmFault
       \/ \* _compute_checksum() or _write_manifest() raises
          /\ rmCurrent # 0
          /\ rmFault' = rmFault \cup {rmCurrent}
          /\ UNCHANGED <<rmCurrent, rmStopEvent, rmWorker, rmLast, rmElapsed,
                         rmManifests, rmWrites>>
    /\ UNCHANGED <<rcVars, rsVars, recVars, fnVars, syVars>>
    /\ UNCHANGED <<sys, rmDelete, rmMinFree, rmFree, rmLock, rmEventSet, rmPc, rmJoin, rmOut,
                   rmNext, rmSess, rmFiles>>

\* stop_recording(): inside the lock, None without a current session, else
\* the Event is set and worker = self._worker. The stop handler answers 409
\* to None.
RM_stop_recording(t) ==
    /\ sys = "RM" /\ rmPc[t] = "idle"
    /\ RmLockFree(t)
    /\ \/ /\ rmCurrent = 0
          /\ rmLock' = t
          /\ RmLeaving(t, "noactive")
          /\ UNCHANGED <<rmEventSet, rmJoin>>
       \/ /\ rmCurrent # 0
          /\ rmEventSet' = IF rmStopEvent # 0
                           THEN [rmEventSet EXCEPT ![rmStopEvent] = TRUE]
                           ELSE rmEventSet
          /\ rmJoin' = [rmJoin EXCEPT ![t] = rmWorker]
          /\ rmPc' = [rmPc EXCEPT ![t] = "join"]
          /\ UNCHANGED <<rmOut, rmLock>>
    /\ UNCHANGED <<rcVars, rsVars, recVars, fnVars, syVars>>
    /\ UNCHANGED <<sys, rmDelete, rmMinFree, rmFree, rmCurrent, rmStopEvent, rmWorker,
                   rmLast, rmW, rmNext, rmSess, rmElapsed, rmFiles, rmManifests,
                   rmWrites, rmFault>>

\* stop_recording(): worker.join() returns once the thread has ended;
\* return self._last_manifest. The handler answers 409 to None and else
\* goes on to recorder.cleanup_offloaded().
RM_stop_join(t) ==
    /\ sys = "RM" /\ rmPc[t] = "join"
    /\ rmJoin[t] = 0 \/ rmW[rmJoin[t]] = "dead"
    /\ rmJoin' = [rmJoin EXCEPT ![t] = 0]
    /\ \/ /\ rmLast = "none"
          /\ RmReturning(t, "noactive")
       \/ /\ rmLast # "none"
          /\ rmPc' = [rmPc EXCEPT ![t] = "cleanup"]
          /\ UNCHANGED rmOut
    /\ UNCHANGED <<rcVars, rsVars, recVars, fnVars, syVars>>
    /\ UNCHANGED <<sys, rmDelete, rmMinFree, rmFree, rmLock, rmCurrent, rmStopEvent, rmEventSet,
                   rmWorker, rmLast, rmW, rmNext, rmSess, rmElapsed, rmFiles,
                   rmManifests, rmWrites, rmFault>>

\* A variant that deletes any manifest under space pressure.
RmShouldDeleteUnderPressure(offloaded, free_gb) ==
    (rmDelete /\ offloaded) \/ free_gb < rmMinFree

\* cleanup_offloaded(): should_delete for one manifest, given the free space
\* read last.
RmShouldDelete(offloaded, free_gb) ==
    LET should_delete == rmDelete /\ offloaded IN
    IF ~should_delete /\ free_gb < rmMinFree THEN offloaded ELSE should_delete

RECURSIVE RmCleanupFrom(_, _)
\* cleanup_offloaded(): the loop over sorted(manifests_dir.glob("*.json")),
\* from the i-th path on; st holds the manifests, the files and free_gb.
RmCleanupFrom(i, st) ==
    IF i > MaxSessions THEN st
    ELSE LET n == NameSeq[i]
             m == st.manifests[n] IN
         IF m = NoRmManifest \/ ~RmShouldDelete(m.offloaded, st.free)
         THEN RmCleanupFrom(i + 1, st)
         ELSE RmCleanupFrom(i + 1,
                [manifests |-> [st.manifests EXCEPT ![n] = NoRmManifest],
                 files |-> [st.files EXCEPT ![m.sid] = FALSE],
                 free |-> IF st.files[m.sid] THEN FreeAfterUnlink(st.free) ELSE st.free,
                 removed |-> st.removed \cup {n}])

cleanup_offloaded ==
    RmCleanupFrom(1, [manifests |-> rmManifests, files |-> rmFiles, free |-> rmFree,
                      removed |-> {}])

\* The handlers' call of recorder.cleanup_offloaded(), and their answer.
RM_cleanup(t) ==
    /\ sys = "RM" /\ rmPc[t] = "cleanup"
    /\ rmManifests' = cleanup_offloaded.manifests
    /\ rmFiles' = cleanup_offloaded.files
    /\ rmFree' = cleanup_offloaded.free
    /\ RmReturning(t, "done")
    /\ UNCHANGED <<rcVars, rsVars, recVars, fnVars, syVars>>
    /\ UNCHANGED <<sys, rmDelete, rmMinFree, rmLock, rmCurrent, rmStopEvent, rmEventSet, rmWorker,
                   rmLast, rmJoin, rmW, rmNext, rmSess, rmElapsed, rmWrites, rmFault>>

\* A variant that matches on the session alone.
RmMatchSession(session_id, camera_ok, file_sid) ==
    {n \in Names : rmManifests[n] # NoRmManifest /\ n = session_id}

\* mark_offloaded(session_id, camera_id, file_name, checksum): the manifest
\* the arguments match, if any. file_name is the file of session file_sid.
RmMatch(session_id, camera_ok, file_sid) ==
    {n \in Names : /\ rmManifests[n] # NoRmManifest
                   /\ n = session_id /\ camera_ok
                   /\ rmManifests[n].sid = file_sid}

\* A variant of the check that accepts any checksum.
RmChecksumUnchecked(recorded_checksum, checksum) == FALSE

\* mark_offloaded(): if recorded_checksum and recorded_checksum != checksum
RmChecksumMismatch(recorded_checksum, checksum) ==
    recorded_checksum # "null" /\ recorded_checksum # checksum

\* The values of the checksum argument of a confirmation.
RmChecksumValues == {"sha256", "other"}

\* The ConfirmRequests sent: for a stored manifest, with its camera, its file
\* and any checksum, with another camera or with another file name; and for
\* a session that has no manifest.
RmRequests ==
    LET stored == {n \in Names : rmManifests[n] # NoRmManifest}
        request(n, c, f, v) == [session_id |-> n, camera_ok |-> c, file_sid |-> f,
                                checksum |-> v] IN
    {request(n, TRUE, rmManifests[n].sid, v) : n \in stored, v \in RmChecksumValues}
      \cup {request(n, FALSE, rmManifests[n].sid, "sha256") : n \in stored}
      \cup {request(n, TRUE, (rmManifests[n].sid % MaxSessions) + 1, "sha256") :
             n \in stored}
      \cup {request(n, TRUE, 1, "sha256") : n \in Names \ stored}

\* confirm_recording() for one request: recorder.mark_offloaded(...); 400 on
\* a checksum mismatch, 404 without a match, else the manifest is rewritten
\* with offloaded = True and the handler goes on to
\* recorder.cleanup_offloaded().
RmConfirm(t, session_id, camera_ok, file_sid, checksum) ==
    /\ sys = "RM" /\ rmPc[t] = "idle"
    /\ LET found == RmMatch(session_id, camera_ok, file_sid) IN
       \/ /\ found = {}
          /\ RmReturning(t, "notfound")
          /\ UNCHANGED rmManifests
       \/ /\ found # {}
          /\ RmChecksumMismatch(rmManifests[session_id].checksum, checksum)
          /\ RmReturning(t, "mismatch")
          /\ UNCHANGED rmManifests
       \/ /\ found # {}
          /\ ~RmChecksumMismatch(rmManifests[session_id].checksum, checksum)
          /\ rmManifests' = [rmManifests EXCEPT ![session_id].offloaded = TRUE]
          /\ rmPc' = [rmPc EXCEPT ![t] = "cleanup"]
          /\ UNCHANGED rmOut
    /\ UNCHANGED <<rcVars, rsVars, recVars, fnVars, syVars>>
    /\ UNCHANGED <<sys, rmDelete, rmMinFree, rmFree, rmLock, rmCurrent, rmStopEvent, rmEventSet,
                   rmWorker, rmLast, rmJoin, rmW, rmNext, rmSess, rmElapsed, rmFiles,
                   rmWrites, rmFault>>

\* The confirm handler, POST /api/v1/recordings/confirm.
RM_confirm_recording(t) ==
    \E request \in RmRequests :
      RmConfirm(t, request.session_id, request.camera_ok, request.file_sid,
                request.checksum)

\* update_config(): setattr(settings, field, value) for delete_after_confirm
\* or free_space_min_gb.
RM_update_config(t) ==
    /\ sys = "RM" /\ rmPc[t] = "idle"
    /\ \/ /\ rmDelete' = ~rmDelete
          /\ UNCHANGED rmMinFree
       \/ /\ \E value \in MinFreeChoices : value # rmMinFree /\ rmMinFree' = value
          /\ UNCHANGED rmDelete
    /\ UNCHANGED <<rcVars, rsVars, recVars, fnVars, syVars>>
    /\ UNCHANGED <<sys, rmFree, rmLock, rmCurrent, rmStopEvent, rmEventSet, rmWorker,
                   rmLast, rmPc, rmJoin, rmOut, rmW, rmNext, rmSess, rmElapsed, rmFiles,
                   rmManifests, rmWrites, rmFault>>

\* The free space of the disk changes under other writers.
RM_disk_change ==
    /\ sys = "RM"
    /\ \E free \in FreeRange : free # rmFree /\ rmFree' = free
    /\ UNCHANGED <<rcVars, rsVars, recVars, fnVars, syVars>>
    /\ UNCHANGED <<sys, rmDelete, rmMinFree, rmLock, rmCurrent, rmStopEvent, rmEventSet, rmWorker,
                   rmLast, rmPc, rmJoin, rmOut, rmW, rmNext, rmSess, rmElapsed, rmFiles,
                   rmManifests, rmWrites, rmFault>>

\* Wall-clock time passes.
RM_tick ==
    /\ sys = "RM"
    /\ rmCurrent # 0 /\ rmElapsed < MaxElapsed
    /\ rmElapsed' = rmElapsed + 1
    /\ UNCHANGED <<rcVars, rsVars, recVars, fnVars, syVars>>
    /\ UNCHANGED <<sys, rmDelete, rmMinFree, rmFree, rmLock, rmCurrent, rmStopEvent, rmEventSet,
                   rmWorker, rmLast, rmPc, rmJoin, rmOut, rmW, rmNext, rmSess, rmFiles,
                   rmManifests, rmWrites, rmFault>>

RmInit ==
    /\ rmDelete = delete_after_confirm
    /\ rmMinFree = free_space_min_gb
    /\ rmFree \in FreeRange
    /\ rmLock = 0
    /\ rmCurrent = 0
    /\ rmStopEvent = 0
    /\ rmEventSet = [s \in Sids |-> FALSE]
    /\ rmWorker = 0
    /\ rmLast = "none"
    /\ rmPc = [t \in Clients |-> "idle"]
    /\ rmJoin = [t \in Clients |-> 0]
    /\ rmOut = [t \in Clients |-> "none"]
    /\ rmW = [s \in Sids |-> "unborn"]
    /\ rmNext = 1
    /\ rmSess = [s \in Sids |-> NoDescriptor]
    /\ rmElapsed = 0
    /\ rmFiles = [s \in Sids |-> FALSE]
    /\ rmManifests = [n \in Names |-> NoRmManifest]
    /\ rmWrites = [s \in Sids |-> 0]
    /\ rmFault = {}

RmNext ==
    \/ RM_tick
    \/ RM_disk_change
    \/ \E t \in Clients :
          \/ RM_start_enter(t) \/ RM_start_reject(t) \/ RM_start_launch(t)
          \/ RM_leave(t) \/ RM_stop_recording(t) \/ RM_stop_join(t)
          \/ RM_cleanup(t) \/ RM_confirm_recording(t) \/ RM_update_config(t)
    \/ \E s \in Sids :
          \/ RM_worker_begin(s) \/ RM_worker_loop_exit(s) \/ RM_worker_finalize(s)

\* Optional[int]: None, or a value.
NoSeconds == << >>
SomeSeconds(n) == << n >>

\* RecordingState(active=False, ended_at=None)
InactiveState ==
    [active |-> FALSE, session_id |-> "None", file_name |-> 0, started_at |-> 0,
     elapsed_seconds |-> NoSeconds, eta_seconds |-> NoSeconds]

\* A variant of eta_seconds that is never below one second.
RmEtaAtLeastOne(target, elapsed) == IF target - elapsed > 1 THEN target - elapsed ELSE 1

\* eta_seconds = max(0, self.current.target_duration_seconds - elapsed_seconds)
RmEta(target, elapsed) == IF target - elapsed > 0 THEN target - elapsed ELSE 0

\* RecordingManager.state(), the body of its `with self._lock:`. The file name
\* and recording_started_at of a session are told apart by its number.
RmState ==
    IF rmCurrent = 0 THEN InactiveState
    ELSE [active |-> TRUE,
          session_id |-> rmSess[rmCurrent].name,
          file_name |-> rmCurrent,
          started_at |-> rmCurrent,
          elapsed_seconds |-> SomeSeconds(Seconds(rmElapsed)),
          eta_seconds |-> SomeSeconds(RmEta(RmTargetSeconds(rmSess[rmCurrent].test),
                                            Seconds(rmElapsed)))]

\* A thread calls RecordingManager.state() and has its answer.
RM_state ==
    /\ sys = "RM" /\ fnCall = "none"
    /\ rmLock = 0
    /\ fnCall' = "RecordingManager.state"
    /\ fnArgs' = << >>
    /\ fnRet' = Returned(RmState)
    /\ sys' = "END"
    /\ UNCHANGED <<rcVars, rmVars, rsVars, recVars, syVars>>

DurationReached == "Recording duration reached; finalizing soon"

\* status._warnings(): the notice about the session, given the two answers of
\* recorder.state(): `recorder.state().active and recorder.state().eta_seconds
\* == 0`. The other notices depend on the disk, the sync offset and the
\* sensors only.
RmWarnings(first_active, second) ==
    IF first_active /\ second.eta_seconds = SomeSeconds(0) THEN {DurationReached} ELSE {}

\* status.current_status() up to the first recorder.state() of _warnings:
\* without an active session `and` does not evaluate the second one.
RM_status_begin ==
    /\ sys = "RM" /\ fnCall = "none"
    /\ rmLock = 0
    /\ fnArgs' = [first_active |-> RmState.active]
    /\ IF RmState.active
       THEN /\ fnCall' = "status.current_status:pending"
            /\ fnRet' = fnRet
            /\ sys' = sys
       ELSE /\ fnCall' = "status.current_status"
            /\ fnRet' = Returned([warnings |-> RmWarnings(FALSE, RmState)])
            /\ sys' = "END"
    /\ UNCHANGED <<rcVars, rmVars, rsVars, recVars, syVars>>

\* status.current_status(): the second recorder.state() of _warnings, and the
\* report is returned.
RM_status_end ==
    /\ sys = "RM" /\ fnCall = "status.current_status:pending"
    /\ rmLock = 0
    /\ fnCall' = "status.current_status"
    /\ fnRet' = Returned([warnings |-> RmWarnings(fnArgs.first_active, RmState)])
    /\ sys' = "END"
    /\ UNCHANGED <<rcVars, rmVars, rsVars, recVars, fnArgs, syVars>>

\* RecordingManager with one thread that reads its state or its status.
RmReadNext == RM_state \/ RM_status_begin \/ RM_status_end

(* ======================================================================= *)
(*       soccer_rig/state.py, and its handlers in soccer_rig/app.py         *)
(* ======================================================================= *)

RsSessionIds == Names
RsNames == RsSessionIds \cup {"TEST"}
RsClockRange == 0..MaxClock

\* f"{session_id}_{camera_id}_{now:%Y%m%d}_{now:%H%M%S}.mp4": the session and
\* the second of the start.
RsFiles == RsNames \X RsClockRange
RsFilename(session_id, now) == <<session_id, now>>
NoFile == <<"None", 0>>

\* A RecordingInfo; `there` is FALSE for a key the dict does not hold. The
\* second of started_at is the one in the filename.
\* checksum_sha256 is None ("null") until a confirmation stores a value.
NoRecording == [there |-> FALSE, duration |-> 0, offloaded |-> FALSE, checksum |-> "null"]
RecordingInfo == [there |-> TRUE, duration |-> 0, offloaded |-> FALSE, checksum |-> "null"]

\* request.checksum.value of a ConfirmRequest
RsChecksumValues == {"a", "b"}

\* size_gb of a record is set and not zero once it has a duration above zero.
RsSized(record) == record.duration > 0

\* The handler answers: out is the answer's kind, which the state keeps no
\* trace of.
RsDone(t, out) == rsPc' = [rsPc EXCEPT ![t] = "idle"]

\* The values of free_space_min_gb a partial config sets, and the free space
\* shutil.disk_usage reports, in GB: below the threshold and at it.
RsMinFreeChoices == {free_space_min_gb}
RsFreeRange == {free_space_min_gb - 1, free_space_min_gb}

\* _ensure_storage_capacity(): the cached disk status is read again from the
\* filesystem; free_gb < free_space_min_gb raises ValueError.
RsCapacityOk == ~(rsFsFree < rsMinFree)

\* self.recordings[filename] = record: a new key goes to the end of the dict.
RsInsert(order, file) == IF \E i \in 1..Len(order) : order[i] = file THEN order
                         ELSE Append(order, file)

\* self.recordings.pop(filename, None)
RsPop(order, file) == SelectSeq(order, LAMBDA f : f # file)

\* app.start_recording(): 409 while state.camera_status.recording, 400 on
\* another camera_id, else on to state.start_recording().
RS_start_check(t) ==
    /\ sys = "RS" /\ rsPc[t] = "idle"
    /\ Len(rsOrder) < MaxSessions
    /\ \/ /\ rsRecording
          /\ RsDone(t, "conflict")
       \/ /\ ~rsRecording
          /\ RsDone(t, "badrequest")
       \/ /\ ~rsRecording
          /\ rsPc' = [rsPc EXCEPT ![t] = "start_call"]
    /\ UNCHANGED <<rcVars, rmVars, recVars, fnVars, syVars>>
    /\ UNCHANGED <<sys, rsDelete, rsMinFree, rsFsFree, rsDisk, rsRecording,
                   rsActiveSession, rsActiveId, rsRecordings, rsOrder, rsClock, rsLocal>>

\* RigState.start_recording(session_id, camera_id, **overrides), as called by
\* the handler; ValueError becomes 400.
RS_start_recording(t) ==
    /\ sys = "RS" /\ rsPc[t] = "start_call"
    /\ rsDisk' = rsFsFree
    /\ \/ /\ ~RsCapacityOk
          /\ RsDone(t, "nospace")
          /\ UNCHANGED <<rsRecording, rsActiveSession, rsActiveId, rsRecordings, rsOrder>>
       \/ /\ RsCapacityOk
          /\ \E session_id \in RsSessionIds :
               LET filename == RsFilename(session_id, rsClock) IN
               /\ rsRecordings' = [rsRecordings EXCEPT ![filename] = RecordingInfo]
               /\ rsOrder' = RsInsert(rsOrder, filename)
               /\ rsRecording' = TRUE
               /\ rsActiveSession' = session_id
               /\ rsActiveId' = filename
          /\ RsDone(t, "ok")
    /\ UNCHANGED <<rcVars, rmVars, recVars, fnVars, syVars>>
    /\ UNCHANGED <<sys, rsDelete, rsMinFree, rsFsFree, rsClock, rsLocal>>

\* RigState.stop_recording(), behind app.stop_recording(): ValueError (400)
\* without an active id, KeyError when the dict lacks the active id.
RS_stop_recording(t) ==
    /\ sys = "RS" /\ rsPc[t] = "idle"
    /\ \/ /\ rsActiveId = NoFile
          /\ RsDone(t, "noactive")
          /\ UNCHANGED <<rsDisk, rsRecording, rsActiveSession, rsActiveId, rsRecordings>>
       \/ /\ rsActiveId # NoFile
          /\ ~rsRecordings[rsActiveId].there
          /\ RsDone(t, "keyerror")
          /\ UNCHANGED <<rsDisk, rsRecording, rsActiveSession, rsActiveId, rsRecordings>>
       \/ /\ rsActiveId # NoFile
          /\ rsRecordings[rsActiveId].there
          /\ LET duration == rsClock - rsActiveId[2] IN
             rsRecordings' = [rsRecordings EXCEPT ![rsActiveId].duration = duration]
          /\ rsDisk' = rsFsFree
          /\ rsRecording' = FALSE
          /\ rsActiveSession' = "None"
          /\ rsActiveId' = NoFile
          /\ RsDone(t, "stopped")
    /\ UNCHANGED <<rcVars, rmVars, recVars, fnVars, syVars>>
    /\ UNCHANGED <<sys, rsDelete, rsMinFree, rsFsFree, rsOrder, rsClock, rsLocal>>

\* _delete_recording(filename) on st = [recs, order, disk, removed]: the
\* record is popped; if it had a size the cached disk status is refreshed.
RsDeleteRecording(st, filename) ==
    [recs |-> [st.recs EXCEPT ![filename] = NoRecording],
     order |-> RsPop(st.order, filename),
     disk |-> IF st.recs[filename].there /\ RsSized(st.recs[filename]) THEN rsFsFree
              ELSE st.disk,
     removed |-> IF st.recs[filename].there THEN st.removed \cup {filename}
                 ELSE st.removed]

RECURSIVE RsCleanupFrom(_, _, _)
\* _maybe_cleanup_storage(): the loop over list(self.recordings.items()),
\* from the i-th item of that list on.
RsCleanupFrom(items, i, st) ==
    IF i > Len(items) THEN st
    ELSE IF ~st.recs[items[i]].offloaded THEN RsCleanupFrom(items, i + 1, st)
    ELSE LET after == RsDeleteRecording(st, items[i]) IN
         IF after.disk >= rsMinFree THEN after
         ELSE RsCleanupFrom(items, i + 1, after)

\* _maybe_cleanup_storage()
RsMaybeCleanupStorage(st) ==
    IF st.disk >= rsMinFree THEN st ELSE RsCleanupFrom(st.order, 1, st)

\* confirm_offload(request) on the record found: the flags are set, then the
\* record is deleted or the storage cleaned up.
RsConfirmed(file, value) ==
    LET recs == [rsRecordings EXCEPT ![file].offloaded = TRUE, ![file].checksum = value]
        st == [recs |-> recs, order |-> rsOrder, disk |-> rsDisk, removed |-> {}] IN
    IF rsDelete THEN RsDeleteRecording(st, file) ELSE RsMaybeCleanupStorage(st)

\* _find_recording(session_id, filename) finds a record.
RsFound(session_id, file) == rsRecordings[file].there /\ file[1] = session_id

\* The ConfirmRequests sent: for a stored file, with its session and any
\* checksum value, with an algo other than sha256, or with another session;
\* and for a file the dict does not hold.
RsRequests ==
    LET stored == {f \in RsFiles : rsRecordings[f].there}
        unknown == CHOOSE f \in RsFiles \ stored : TRUE
        request(s, f, h, v) == [session_id |-> s, file |-> f, sha256 |-> h, value |-> v] IN
    {request(f[1], f, TRUE, v) : f \in stored, v \in RsChecksumValues}
      \cup {request(f[1], f, FALSE, "a") : f \in stored}
      \cup {request("S0", f, TRUE, "a") : f \in stored}
      \cup {request(unknown[1], unknown, TRUE, "a")}

\* RigState.confirm_offload(request), behind app.confirm_recording(), for
\* one request: KeyError (404) from _find_recording, ValueError (400) for
\* another algo, else the record is flagged and takes the request's checksum.
RsConfirm(t, session_id, file, sha256, value) ==
    /\ sys = "RS" /\ rsPc[t] = "idle"
    /\ \/ /\ ~RsFound(session_id, file)
          /\ RsDone(t, "notfound")
          /\ UNCHANGED <<rsRecordings, rsOrder, rsDisk>>
       \/ /\ RsFound(session_id, file)
          /\ ~sha256
          /\ RsDone(t, "badalgo")
          /\ UNCHANGED <<rsRecordings, rsOrder, rsDisk>>
       \/ /\ RsFound(session_id, file)
          /\ sha256
          /\ LET after == RsConfirmed(file, value) IN
             /\ rsRecordings' = after.recs
             /\ rsOrder' = after.order
             /\ rsDisk' = after.disk
          /\ RsDone(t, "confirmed")
    /\ UNCHANGED <<rcVars, rmVars, recVars, fnVars, syVars>>
    /\ UNCHANGED <<sys, rsDelete, rsMinFree, rsFsFree, rsRecording, rsActiveSession,
                   rsActiveId, rsClock, rsLocal>>

\* The confirm handler, POST /api/v1/recordings/confirm.
RS_confirm_offload(t) ==
    \E request \in RsRequests :
      RsConfirm(t, request.session_id, request.file, request.sha256, request.value)

\* run_test_recording(), up to the return of its start_recording("TEST").
RS_test_start(t) ==
    /\ sys = "RS" /\ rsPc[t] = "idle"
    /\ rsDisk' = rsFsFree
    /\ \/ /\ ~RsCapacityOk
          /\ RsDone(t, "nospace")
          /\ UNCHANGED <<rsRecording, rsActiveSession, rsActiveId, rsRecordings, rsOrder,
                         rsLocal>>
       \/ /\ RsCapacityOk
          /\ LET filename == RsFilename("TEST", rsClock) IN
             /\ rsRecordings' = [rsRecordings EXCEPT ![filename] = RecordingInfo]
             /\ rsOrder' = RsInsert(rsOrder, filename)
             /\ rsActiveId' = filename
             /\ rsLocal' = [rsLocal EXCEPT ![t] = filename]
          /\ rsRecording' = TRUE
          /\ rsActiveSession' = "TEST"
          /\ rsPc' = [rsPc EXCEPT ![t] = "test_finish"]
    /\ UNCHANGED <<rcVars, rmVars, recVars, fnVars, syVars>>
    /\ UNCHANGED <<sys, rsDelete, rsMinFree, rsFsFree, rsClock>>

\* run_test_recording(), the rest: the record gets its ten seconds and its
\* size, the active slot is cleared and the record deleted.
RS_test_finish(t) ==
    /\ sys = "RS" /\ rsPc[t] = "test_finish"
    /\ rsRecording' = FALSE
    /\ rsActiveSession' = "None"
    /\ rsActiveId' = NoFile
    /\ rsRecordings' = [rsRecordings EXCEPT ![rsLocal[t]] = NoRecording]
    /\ rsOrder' = RsPop(rsOrder, rsLocal[t])
    /\ rsDisk' = rsFsFree
    /\ rsLocal' = [rsLocal EXCEPT ![t] = NoFile]
    /\ RsDone(t, "tested")
    /\ UNCHANGED <<rcVars, rmVars, recVars, fnVars, syVars>>
    /\ UNCHANGED <<sys, rsDelete, rsMinFree, rsFsFree, rsClock>>


\* update_config(partial) with delete_after_confirm and free_space_min_gb
\* ("min_free_gb"); it ends with _refresh_disk_estimate().
RS_update_config(t) ==
    /\ sys = "RS" /\ rsPc[t] = "idle"
    /\ \E delete \in BOOLEAN, value \in RsMinFreeChoices :
         /\ rsDelete' = delete
         /\ rsMinFree' = value
    /\ rsDisk' = rsFsFree
    /\ RsDone(t, "config")
    /\ UNCHANGED <<rcVars, rmVars, recVars, fnVars, syVars>>
    /\ UNCHANGED <<sys, rsFsFree, rsRecording, rsActiveSession, rsActiveId, rsRecordings,
                   rsOrder, rsClock, rsLocal>>

\* A variant of current_status() that also cleans up the storage.
RsCurrentStatusCleaning(st) == RsMaybeCleanupStorage([st EXCEPT !.disk = rsFsFree])

\* current_status() on st = [recs, order, disk, removed]: the only assignments
\* are self.camera_status.disk = disk and self.camera_status.sync = ...
RsCurrentStatus(st) == [st EXCEPT !.disk = rsFsFree]

\* current_status()
RS_current_status(t) ==
    /\ sys = "RS" /\ rsPc[t] = "idle"
    /\ LET after == RsCurrentStatus([recs |-> rsRecordings, order |-> rsOrder,
                                     disk |-> rsDisk, removed |-> {}]) IN
         /\ rsRecordings' = after.recs
         /\ rsOrder' = after.order
         /\ rsDisk' = after.disk
    /\ RsDone(t, "status")
    /\ UNCHANGED <<rcVars, rmVars, recVars, fnVars, syVars>>
    /\ UNCHANGED <<sys, rsDelete, rsMinFree, rsFsFree, rsRecording, rsActiveSession,
                   rsActiveId, rsClock, rsLocal>>

\* run_self_test(): reads only.
RS_run_self_test(t) ==
    /\ sys = "RS" /\ rsPc[t] = "idle"
    /\ RsDone(t, "selftest")
    /\ UNCHANGED <<rcVars, rmVars, recVars, fnVars, syVars>>
    /\ UNCHANGED <<sys, rsDelete, rsMinFree, rsFsFree, rsDisk, rsRecording,
                   rsActiveSession, rsActiveId, rsRecordings, rsOrder, rsClock, rsLocal>>

\* shutil.disk_usage(base_dir) changes under other writers.
RS_disk_change ==
    /\ sys = "RS"
    /\ \E free \in RsFreeRange : free # rsFsFree /\ rsFsFree' = free
    /\ UNCHANGED <<rcVars, rmVars, recVars, fnVars, syVars>>
    /\ UNCHANGED <<sys, rsDelete, rsMinFree, rsDisk, rsRecording, rsActiveSession,
                   rsActiveId, rsRecordings, rsOrder, rsClock, rsPc, rsLocal>>

\* A second of wall-clock time passes.
RS_tick ==
    /\ sys = "RS"
    /\ rsClock < MaxClock
    /\ rsClock' = rsClock + 1
    /\ UNCHANGED <<rcVars, rmVars, recVars, fnVars, syVars>>
    /\ UNCHANGED <<sys, rsDelete, rsMinFree, rsFsFree, rsDisk, rsRecording,
                   rsActiveSession, rsActiveId, rsRecordings, rsOrder, rsPc, rsLocal>>

\* RigState.__init__()
RsInit ==
    /\ rsDelete = delete_after_confirm
    /\ rsMinFree = free_space_min_gb
    /\ rsFsFree \in RsFreeRange
    /\ rsDisk = rsFsFree
    /\ rsRecording = FALSE
    /\ rsActiveSession = "None"
    /\ rsActiveId = NoFile
    /\ rsRecordings = [f \in RsFiles |-> NoRecording]
    /\ rsOrder = << >>
    /\ rsClock = 0
    /\ rsPc = [t \in Clients |-> "idle"]
    /\ rsLocal = [t \in Clients |-> NoFile]

RsNext ==
    \/ RS_tick
    \/ RS_disk_change
    \/ \E t \in Clients :
          \/ RS_start_check(t) \/ RS_start_recording(t) \/ RS_stop_recording(t)
          \/ RS_confirm_offload(t) \/ RS_test_start(t) \/ RS_test_finish(t)
          \/ RS_update_config(t) \/ RS_current_status(t) \/ RS_run_self_test(t)

\* A RecordingState of RigState: the fields _recording_state leaves at None
\* are "None", NoFile and NoSeconds.
RsInactiveState(active) ==
    [active |-> active, session_id |-> "None", file_name |-> NoFile, started_at |-> NoSeconds]

\* state.file_name, state.session_id and state.started_at are read from the
\* one record found under the key.
RsActiveState(active, file) ==
    [active |-> active, session_id |-> file[1], file_name |-> file,
     started_at |-> SomeSeconds(file[2])]

\* _recording_state(): state = RecordingState(active=bool(self.active_recording_id)).
\* RigState takes no lock, so the other handlers run between its reads.
RS_recording_state_begin ==
    /\ sys = "RS" /\ fnCall = "none"
    /\ fnCall' = "RigState._recording_state:if"
    /\ fnArgs' = [active |-> rsActiveId # NoFile]
    /\ UNCHANGED <<sys, rcVars, rmVars, rsVars, recVars, fnRet, syVars>>

\* _recording_state(): `if self.active_recording_id:`; without one the state
\* is returned as built.
RS_recording_state_test ==
    /\ sys = "RS" /\ fnCall = "RigState._recording_state:if"
    /\ IF rsActiveId # NoFile
       THEN /\ fnCall' = "RigState._recording_state:record"
            /\ UNCHANGED <<sys, fnRet>>
       ELSE /\ fnCall' = "RigState._recording_state"
            /\ fnRet' = Returned(RsInactiveState(fnArgs.active))
            /\ sys' = "END"
    /\ UNCHANGED <<rcVars, rmVars, rsVars, recVars, fnArgs, syVars>>

\* _recording_state(): record = self.recordings[self.active_recording_id],
\* a KeyError for a key the dict does not hold (None among them); then the
\* fields of the record are copied and the state is returned.
RS_recording_state_record ==
    /\ sys = "RS" /\ fnCall = "RigState._recording_state:record"
    /\ fnCall' = "RigState._recording_state"
    /\ fnRet' = IF rsActiveId # NoFile /\ rsRecordings[rsActiveId].there
                THEN Returned(RsActiveState(fnArgs.active, rsActiveId))
                ELSE Raised("KeyError")
    /\ sys' = "END"
    /\ UNCHANGED <<rcVars, rmVars, rsVars, recVars, fnArgs, syVars>>

\* RigState with one thread that reads the recording state.
RsReadNext ==
    RS_recording_state_begin \/ RS_recording_state_test \/ RS_recording_state_record

(* ======================================================================= *)
(*                      recording.py (class Recorder)                       *)
(* ======================================================================= *)

\* RecordingMetrics.bump_from_log_line(line): encode_errors += 1 for a line
\* holding "error" (the counter is capped for the check).
RecBump(errors, is_error) ==
    IF is_error /\ errors < MaxErrors THEN errors + 1 ELSE errors

\* Recorder.recording: self._process is not None and self._process.poll() is None
RecRecording == recProcess # 0 /\ recProc[recProcess] \in {"running", "termsent"}

RecDone(t, out) ==
    /\ recPc' = [recPc EXCEPT ![t] = "idle"]
    /\ recOut' = [recOut EXCEPT ![t] = out]

\* start_recording(), up to the start tone: RuntimeError while recording, else
\* fresh metrics, no last error, the destination and the timestamps.
REC_start_enter(t) ==
    /\ sys = "REC" /\ recPc[t] = "idle"
    /\ recNext <= MaxSessions
    /\ \/ /\ RecRecording
          /\ RecDone(t, "active")
          /\ UNCHANGED <<recErrors, recLastError, recDest, recNext, recLocal>>
       \/ /\ ~RecRecording
          /\ recErrors' = 0
          /\ recLastError' = "None"
          /\ recDest' = recNext
          /\ recLocal' = [recLocal EXCEPT ![t] = recNext]
          /\ recNext' = recNext + 1
          /\ recPc' = [recPc EXCEPT ![t] = "start_launch"]
          /\ recOut' = [recOut EXCEPT ![t] = "none"]
    /\ UNCHANGED <<rcVars, rmVars, rsVars, fnVars, syVars>>
    /\ UNCHANGED <<sys, recPipe, recEmitted, recProcess, recProc, recCode, recMonitor, recAlive, recStarted,
                   recEntries, recLaunched>>

\* start_recording(), the rest: Popen, self._process, self._start_time and
\* the stderr monitor thread.
REC_start_launch(t) ==
    /\ sys = "REC" /\ recPc[t] = "start_launch"
    /\ LET s == recLocal[t] IN
       /\ recProc' = [recProc EXCEPT ![s] = "running"]
       /\ recProcess' = s
       /\ recMonitor' = s
       /\ recAlive' = [recAlive EXCEPT ![s] = TRUE]
       /\ recLaunched' = recLaunched \cup {s}
    /\ recStarted' = TRUE
    /\ recLocal' = [recLocal EXCEPT ![t] = 0]
    /\ RecDone(t, "started")
    /\ UNCHANGED <<rcVars, rmVars, rsVars, fnVars, syVars>>
    /\ UNCHANGED <<sys, recPipe, recEmitted, recCode, recErrors, recLastError, recDest, recNext, recEntries>>

\* stop_recording(): None when not recording, else self._process.terminate().
REC_stop_enter(t) ==
    /\ sys = "REC" /\ recPc[t] = "idle"
    /\ \/ /\ ~RecRecording
          /\ RecDone(t, "nothing")
          /\ UNCHANGED recProc
       \/ /\ RecRecording
          /\ recProc' = [recProc EXCEPT ![recProcess] = "termsent"]
          /\ recPc' = [recPc EXCEPT ![t] = "stop_wait"]
          /\ recOut' = [recOut EXCEPT ![t] = "none"]
    /\ UNCHANGED <<rcVars, rmVars, rsVars, fnVars, syVars>>
    /\ UNCHANGED <<sys, recPipe, recEmitted, recProcess, recCode, recMonitor, recAlive, recErrors,
                   recLastError, recStarted, recDest, recNext, recLocal, recEntries,
                   recLaunched>>

\* stop_recording(): self._process.wait(timeout=10) returns, or times out and
\* kill() and wait() end the process. AttributeError if self._process is None
\* by now.
REC_stop_wait(t) ==
    /\ sys = "REC" /\ recPc[t] = "stop_wait"
    /\ \/ /\ recProcess = 0
          /\ RecDone(t, "attributeerror")
          /\ UNCHANGED <<recProc, recCode>>
       \/ /\ recProcess # 0
          /\ recProc[recProcess] = "exited"
          /\ recPc' = [recPc EXCEPT ![t] = "stop_finish"]
          /\ UNCHANGED <<recOut, recProc, recCode>>
       \/ /\ recProcess # 0
          /\ recProc[recProcess] # "exited"
          /\ recProc' = [recProc EXCEPT ![recProcess] = "exited"]
          /\ recCode' = [recCode EXCEPT ![recProcess] = "nonzero"]
          /\ recPc' = [recPc EXCEPT ![t] = "stop_finish"]
          /\ UNCHANGED recOut
    /\ UNCHANGED <<rcVars, rmVars, rsVars, fnVars, syVars>>
    /\ UNCHANGED <<sys, recPipe, recEmitted, recProcess, recMonitor, recAlive, recErrors, recLastError,
                   recStarted, recDest, recNext, recLocal, recEntries, recLaunched>>

\* stop_recording(): the returncode check.
RecAfterReturncode(code) ==
    IF code \notin {"zero", "None"}
    THEN [errors |-> IF recErrors < MaxErrors THEN recErrors + 1 ELSE recErrors,
          last |-> IF recLastError = "None" THEN "exited" ELSE recLastError]
    ELSE [errors |-> recErrors, last |-> recLastError]

\* _create_manifest_entry(audio_enabled, duration_s)
RecordingEntry(dest, timed, errors) ==
    [file_path |-> dest, timed |-> timed, encode_errors |-> errors]

\* stop_recording(), the rest: the returncode check, the manifest entry and
\* the reset of the recorder's fields.
REC_stop_finish(t) ==
    /\ sys = "REC" /\ recPc[t] = "stop_finish"
    /\ \/ /\ recProcess = 0
          /\ RecDone(t, "attributeerror")
          /\ UNCHANGED <<recProcess, recMonitor, recErrors, recLastError, recStarted,
                         recDest, recEntries>>
       \/ /\ recProcess # 0
          /\ LET after == RecAfterReturncode(recCode[recProcess]) IN
             /\ recErrors' = after.errors
             /\ recLastError' = after.last
             /\ recEntries' = Append(recEntries,
                                     RecordingEntry(recDest, recStarted, after.errors))
          /\ recProcess' = 0
          /\ recMonitor' = 0
          /\ recStarted' = FALSE
          /\ recDest' = 0
          /\ RecDone(t, "entry")
    /\ UNCHANGED <<rcVars, rmVars, rsVars, fnVars, syVars>>
    /\ UNCHANGED <<sys, recPipe, recEmitted, recProc, recCode, recAlive, recNext, recLocal, recLaunched>>

\* The pipeline ends: by itself, or on the signal sent to it.
REC_pipeline_exit(s) ==
    /\ sys = "REC" /\ recProc[s] \in {"running", "termsent"}
    /\ recProc' = [recProc EXCEPT ![s] = "exited"]
    /\ \E code \in {"zero", "nonzero"} : recCode' = [recCode EXCEPT ![s] = code]
    /\ UNCHANGED <<rcVars, rmVars, rsVars, fnVars, syVars>>
    /\ UNCHANGED <<sys, recPipe, recEmitted, recProcess, recMonitor, recAlive, recErrors, recLastError,
                   recStarted, recDest, recNext, recPc, recOut, recLocal, recEntries,
                   recLaunched>>

\* The running pipeline writes a line holding "error" to its stderr.
REC_pipeline_stderr(s) ==
    /\ sys = "REC" /\ recProc[s] \in {"running", "termsent"}
    /\ recEmitted[s] < MaxLines
    /\ recPipe' = [recPipe EXCEPT ![s] = @ + 1]
    /\ recEmitted' = [recEmitted EXCEPT ![s] = @ + 1]
    /\ UNCHANGED <<rcVars, rmVars, rsVars, fnVars, syVars>>
    /\ UNCHANGED <<sys, recProcess, recProc, recCode, recMonitor, recAlive, recErrors,
                   recLastError, recStarted, recDest, recNext, recPc, recOut, recLocal,
                   recEntries, recLaunched>>

\* _monitor_stderr(stderr): the thread of session s reads one error line of
\* the pipe, self._metrics.bump_from_log_line(line) and last_pipeline_error;
\* or the pipe is empty and closed, and the thread ends. Lines without "error"
\* change nothing that is modelled.
REC_monitor_stderr(s) ==
    /\ sys = "REC" /\ recAlive[s]
    /\ \/ /\ recPipe[s] > 0
          /\ recPipe' = [recPipe EXCEPT ![s] = @ - 1]
          /\ recErrors' = RecBump(recErrors, TRUE)
          /\ recLastError' = "line"
          /\ UNCHANGED recAlive
       \/ /\ recPipe[s] = 0
          /\ recProc[s] = "exited"
          /\ recAlive' = [recAlive EXCEPT ![s] = FALSE]
          /\ UNCHANGED <<recErrors, recLastError, recPipe>>
    /\ UNCHANGED <<rcVars, rmVars, rsVars, fnVars, syVars>>
    /\ UNCHANGED <<sys, recProcess, recProc, recCode, recMonitor, recStarted, recDest,
                   recNext, recPc, recOut, recLocal, recEntries, recLaunched, recEmitted>>

\* Recorder.__init__(), with no manifest file yet.
RecInit ==
    /\ recProcess = 0
    /\ recProc = [s \in Sids |-> "none"]
    /\ recCode = [s \in Sids |-> "None"]
    /\ recMonitor = 0
    /\ recAlive = [s \in Sids |-> FALSE]
    /\ recErrors = 0
    /\ recLastError = "None"
    /\ recStarted = FALSE
    /\ recDest = 0
    /\ recNext = 1
    /\ recPc = [t \in Clients |-> "idle"]
    /\ recOut = [t \in Clients |-> "none"]
    /\ recLocal = [t \in Clients |-> 0]
    /\ recEntries = << >>
    /\ recLaunched = {}
    /\ recPipe = [s \in Sids |-> 0]
    /\ recEmitted = [s \in Sids |-> 0]

RecNext ==
    \/ \E t \in Clients :
          \/ REC_start_enter(t) \/ REC_start_launch(t) \/ REC_stop_enter(t)
          \/ REC_stop_wait(t) \/ REC_stop_finish(t)
    \/ \E s \in Sids :
          REC_pipeline_exit(s) \/ REC_pipeline_stderr(s) \/ REC_monitor_stderr(s)

(* ======================================================================= *)
(*                          specifications                                 *)
(* ======================================================================= *)

(* ======================================================================= *)
(*                 services/sync/telemetry.py                              *)
(* ======================================================================= *)

\* What `chronyc tracking` does when it is run: the tool is missing
\* (FileNotFoundError), it cannot be executed (another OSError), it times
\* out, or it ends with a return code and an output that has no "Last offset"
\* line, has one with a number, or has one without a number.
ChronyRuns == {"missing", "denied", "timeout", "ran"}
ChronyOutputs == {"noline", "value", "garbage"}
ChronyOffsetsMs == {0, 5, 60}
ChronyEnvs == [run : ChronyRuns, returncode : {0, 1}, stdout : ChronyOutputs,
               offset : ChronyOffsetsMs]

\* Optional[float]: None, or a value.
NoOffset == << >>
SomeOffset(ms) == << ms >>

\* A variant that takes every "Last offset" line as a verified offset.
ParseOffsetTrusting(output) ==
    IF output.stdout = "noline" THEN [offset_ms |-> NoOffset, confidence |-> "chrony-unknown"]
    ELSE IF output.stdout = "value"
         THEN [offset_ms |-> SomeOffset(output.offset), confidence |-> "good"]
    ELSE [offset_ms |-> NoOffset, confidence |-> "good"]

\* _parse_offset(output)
ParseOffset(output) ==
    IF output.stdout = "noline" THEN [offset_ms |-> NoOffset, confidence |-> "chrony-unknown"]
    ELSE IF output.stdout = "value"
         THEN [offset_ms |-> SomeOffset(output.offset), confidence |-> "good"]
    ELSE [offset_ms |-> NoOffset, confidence |-> "chrony-parse"]

ChronyTelemetry(offset_ms, confidence) == [offset_ms |-> offset_ms, confidence |-> confidence]

\* chrony_telemetry(role): how the call ends.
chrony_telemetry(env) ==
    IF env.run = "missing" THEN Returned(ChronyTelemetry(0, "chrony-missing"))
    ELSE IF env.run = "timeout" THEN Returned(ChronyTelemetry(0, "chrony-timeout"))
    ELSE IF env.run = "denied" THEN Raised("OSError")
    ELSE LET parsed == ParseOffset(env)
             offset_ms == IF parsed.offset_ms = NoOffset THEN 0 ELSE parsed.offset_ms[1]
             confidence == IF env.returncode # 0 THEN "chrony-error" ELSE parsed.confidence
         IN Returned(ChronyTelemetry(offset_ms, confidence))

(* ======================================================================= *)
(*        soccer_rig/status.py and RigState: the sync part of a status     *)
(* ======================================================================= *)

\* status._read_chrony_offset(): (offset_ms, confidence), or an exception.
ReadChronyOffset(env) ==
    IF env.run = "missing" THEN Returned([offset_ms |-> NoOffset, confidence |-> "chrony-missing"])
    ELSE IF env.run = "timeout"
         THEN Returned([offset_ms |-> NoOffset, confidence |-> "chrony-timeout"])
    ELSE IF env.run = "denied" THEN Raised("OSError")
    ELSE IF env.returncode # 0
         THEN Returned([offset_ms |-> NoOffset, confidence |-> "chrony-error"])
    ELSE IF env.stdout = "noline"
         THEN Returned([offset_ms |-> NoOffset, confidence |-> "chrony-unknown"])
    ELSE IF env.stdout = "value"
         THEN Returned([offset_ms |-> SomeOffset(env.offset), confidence |-> "good"])
    ELSE Returned([offset_ms |-> NoOffset, confidence |-> "chrony-parse"])

SyncStatus(offset_ms, confidence) == [offset_ms |-> offset_ms, confidence |-> confidence]

\* status._sync_status(): without an offset the report says 0.0 and "unknown".
SyncStatusOf(env) ==
    IF ReadChronyOffset(env).exc # NoException THEN Raised(ReadChronyOffset(env).exc)
    ELSE LET read == ReadChronyOffset(env).value IN
         IF read.offset_ms = NoOffset THEN Returned(SyncStatus(0, "unknown"))
         ELSE Returned(SyncStatus(read.offset_ms[1], read.confidence))

\* RigState.current_status(): sync_health = self.sync_agent.status();
\* sync = self._sync_status_from_health(sync_health) copies the telemetry.
RsSyncStatusOf(env) ==
    IF chrony_telemetry(env).exc # NoException THEN Raised(chrony_telemetry(env).exc)
    ELSE LET telemetry == chrony_telemetry(env).value IN
         Returned(SyncStatus(telemetry.offset_ms, telemetry.confidence))

(* ======================================================================= *)
(*        calls of the module-level functions and read-only methods        *)
(* ======================================================================= *)

\* A call and its frame: nothing of the controllers changes. One call is
\* made in a behaviour.
FnCalled(name, args, ret) ==
    /\ fnCall' = name
    /\ fnArgs' = args
    /\ fnRet' = ret
    /\ UNCHANGED <<sys, rcVars, rmVars, rsVars, recVars, syVars>>

\* gates.all_gates(base_dir, minimum_gb)
Call_all_gates ==
    /\ sys = "FN" /\ fnCall = "none"
    /\ \E env \in GateEnvs, minimum_gb \in MinFreeGbValues :
         FnCalled("all_gates", [env |-> env, minimum_gb |-> minimum_gb],
                  IF all_gates_raises(env) # NoException
                  THEN Raised(all_gates_raises(env))
                  ELSE Returned(all_gates(env, minimum_gb)))

\* telemetry.chrony_telemetry(role)
Call_chrony_telemetry ==
    /\ sys = "FN" /\ fnCall = "none"
    /\ \E env \in ChronyEnvs :
         FnCalled("chrony_telemetry", env, chrony_telemetry(env))

\* RecorderController.run_self_test(minimum_free_gb)
RcRunSelfTest(env, minimum_free_gb) ==
    IF all_gates_raises(env) # NoException THEN Raised(all_gates_raises(env))
    ELSE LET reports == all_gates(env, minimum_free_gb) IN
         Returned([passed |-> \A i \in 1..Len(reports) : reports[i].ok,
                   details |-> [i \in 1..Len(reports) |->
                                  IF reports[i].reason = NoReason THEN "ok"
                                  ELSE reports[i].reason]])

Call_RecorderController_run_self_test ==
    /\ sys = "FN" /\ fnCall = "none"
    /\ \E env \in GateEnvs, minimum_free_gb \in MinFreeGbValues :
         FnCalled("RecorderController.run_self_test",
                  [env |-> env, minimum_free_gb |-> minimum_free_gb],
                  RcRunSelfTest(env, minimum_free_gb))

\* What RigState.run_self_test and the self_test handler find: whether
\* shutil.disk_usage works, the free space, whether os.access(base_dir, W_OK)
\* holds, the configured minimum and what chronyc does.
SelfTestEnvs == [usage : BOOLEAN, free : FreeGbValues, writable : BOOLEAN,
                 free_space_min_gb : MinFreeGbValues, chrony : ChronyEnvs]

\* RigState.run_self_test(): disk = self._disk_status(...); sync_health =
\* self.sync_agent.status(); passed is decided by the confidence alone.
RsRunSelfTest(env) ==
    IF ~env.usage THEN Raised("OSError")
    ELSE IF chrony_telemetry(env.chrony).exc # NoException
         THEN Raised(chrony_telemetry(env.chrony).exc)
    ELSE LET telemetry == chrony_telemetry(env.chrony).value IN
         Returned([passed |-> telemetry.confidence \notin
                                {"chrony-error", "chrony-missing", "chrony-timeout"},
                   free_gb |-> env.free])

Call_RigState_run_self_test ==
    /\ sys = "FN" /\ fnCall = "none"
    /\ \E env \in SelfTestEnvs :
         FnCalled("RigState.run_self_test", env, RsRunSelfTest(env))

\* main.self_test(): recorder._assert_disk_space(), then
\* recorder._assert_camera_available(); a RuntimeError of either gives
\* passed = False, an OSError of shutil.disk_usage is not caught.
RmSelfTest(env) ==
    IF ~env.usage THEN Raised("OSError")
    ELSE IF env.free < env.free_space_min_gb THEN Returned([passed |-> FALSE])
    ELSE IF ~env.writable THEN Returned([passed |-> FALSE])
    ELSE Returned([passed |-> TRUE])

Call_self_test ==
    /\ sys = "FN" /\ fnCall = "none"
    /\ \E env \in SelfTestEnvs :
         FnCalled("self_test", env, RmSelfTest(env))

\* status._sync_status(), as status.current_status() calls it
Call_sync_status ==
    /\ sys = "FN" /\ fnCall = "none"
    /\ \E env \in ChronyEnvs : FnCalled("_sync_status", env, SyncStatusOf(env))

\* RigState._sync_status_from_health(self.sync_agent.status()), as
\* RigState.current_status() calls it
Call_RigState_sync_status ==
    /\ sys = "FN" /\ fnCall = "none"
    /\ \E env \in ChronyEnvs :
         FnCalled("RigState._sync_status_from_health", env, RsSyncStatusOf(env))

\* What RigState._warnings finds about the session: camera_status.recording,
\* whether active_recording_id is set and the dict holds it, the record's
\* duration_seconds (0 for None) and the seconds since its started_at.
RsWarningEnvs == [recording : BOOLEAN, active : BOOLEAN, there : BOOLEAN,
                  duration_seconds : {0, TestTargetSeconds},
                  elapsed : {Seconds(e) : e \in 0..MaxElapsed}]

\* RigState._warnings(...): the notice about the session.
RsWarnings(env) ==
    IF /\ env.recording /\ env.active
       /\ env.there /\ env.duration_seconds # 0
       /\ env.elapsed >= env.duration_seconds
    THEN {DurationReached} ELSE {}

Call_RigState_warnings ==
    /\ sys = "FN" /\ fnCall = "none"
    /\ \E env \in RsWarningEnvs :
         FnCalled("RigState._warnings", env, Returned([warnings |-> RsWarnings(env)]))

\* ---- soccer_rig/recording.py: the methods that read every manifest ----

\* A file of the manifests directory: absent, holding a manifest with its
\* offloaded flag, or holding text json.loads cannot parse.
ManifestFiles ==
    {[kind |-> "absent", offloaded |-> FALSE], [kind |-> "corrupt", offloaded |-> FALSE]}
      \cup {[kind |-> "ok", offloaded |-> b] : b \in BOOLEAN}
ManifestDirs == [Names -> ManifestFiles]
JSONDecodeError == "JSONDecodeError"

RECURSIVE RmListFrom(_, _, _)
\* list_recordings(): the loop over sorted(manifests_dir.glob("*.json")) from
\* the i-th path on; json.loads(manifest.read_text()) is not guarded.
RmListFrom(i, dir, descriptors) ==
    IF i > MaxSessions THEN Returned(descriptors)
    ELSE LET n == NameSeq[i] IN
         IF dir[n].kind = "absent" THEN RmListFrom(i + 1, dir, descriptors)
         ELSE IF dir[n].kind = "corrupt" THEN Raised(JSONDecodeError)
         ELSE RmListFrom(i + 1, dir, Append(descriptors, n))

\* list_recordings() with no session running
list_recordings(dir) == RmListFrom(1, dir, << >>)

RECURSIVE RmMarkFrom(_, _, _)
\* mark_offloaded(session_id, camera_id, file_name, checksum), for the
\* camera, the file and the checksum of the session's manifest: every
\* manifest before the match is parsed; the match is rewritten with
\* offloaded = True and returned.
RmMarkFrom(i, dir, session_id) ==
    IF i > MaxSessions THEN [exc |-> NoException, value |-> [found |-> << >>, dir |-> dir]]
    ELSE LET n == NameSeq[i] IN
         IF dir[n].kind = "absent" THEN RmMarkFrom(i + 1, dir, session_id)
         ELSE IF dir[n].kind = "corrupt"
         THEN [exc |-> JSONDecodeError, value |-> [found |-> << >>, dir |-> dir]]
         ELSE IF n = session_id
         THEN [exc |-> NoException,
               value |-> [found |-> << n >>,
                          dir |-> [dir EXCEPT ![n].offloaded = TRUE]]]
         ELSE RmMarkFrom(i + 1, dir, session_id)

mark_offloaded(dir, session_id) == RmMarkFrom(1, dir, session_id)

RECURSIVE RmEvictFrom(_, _, _, _)
\* cleanup_offloaded() over a directory that may hold unparseable files, from
\* the i-th path on; st holds the directory, free_gb and `removed`. What was
\* unlinked before an exception stays unlinked.
RmEvictFrom(i, st, delete_flag, min_gb) ==
    IF i > MaxSessions THEN [exc |-> NoException, value |-> st]
    ELSE LET n == NameSeq[i]
             should_delete == delete_flag /\ st.dir[n].offloaded
             decided == IF ~should_delete /\ st.free < min_gb THEN st.dir[n].offloaded
                        ELSE should_delete IN
         IF st.dir[n].kind = "absent" THEN RmEvictFrom(i + 1, st, delete_flag, min_gb)
         ELSE IF st.dir[n].kind = "corrupt" THEN [exc |-> JSONDecodeError, value |-> st]
         ELSE IF ~decided THEN RmEvictFrom(i + 1, st, delete_flag, min_gb)
         ELSE RmEvictFrom(i + 1,
                [dir |-> [st.dir EXCEPT ![n] = [kind |-> "absent", offloaded |-> FALSE]],
                 free |-> FreeAfterUnlink(st.free),
                 removed |-> Append(st.removed, n)],
                delete_flag, min_gb)

CleanupEnvs == [dir : ManifestDirs, delete_after_confirm : BOOLEAN,
                free : {free_space_min_gb - 1, free_space_min_gb}]

Call_RecordingManager_list_recordings ==
    /\ sys = "FN" /\ fnCall = "none"
    /\ \E dir \in ManifestDirs :
         FnCalled("RecordingManager.list_recordings", [dir |-> dir], list_recordings(dir))

Call_RecordingManager_mark_offloaded ==
    /\ sys = "FN" /\ fnCall = "none"
    /\ \E dir \in ManifestDirs, session_id \in Names :
         FnCalled("RecordingManager.mark_offloaded",
                  [dir |-> dir, session_id |-> session_id],
                  mark_offloaded(dir, session_id))

Call_RecordingManager_cleanup_offloaded ==
    /\ sys = "FN" /\ fnCall = "none"
    /\ \E env \in CleanupEnvs :
         FnCalled("RecordingManager.cleanup_offloaded", env,
                  RmEvictFrom(1, [dir |-> env.dir, free |-> env.free, removed |-> << >>],
                              env.delete_after_confirm, free_space_min_gb))

\* ---- the three capacity checks ----

\* Free space as shutil.disk_usage reports it, in thousandths of a GB
\* (usage.free / 1024**3 to three decimals), none of them halfway between
\* two hundredths.
DiskUsageMilliGb == {8000, 9994, 9996, 10000, 10004, 12000}
Milli(gb) == gb * 1000

\* round(x, 2) of a value in thousandths that is not halfway between two
\* hundredths.
Round2(milli) == ((milli + 5) \div 10) * 10

\* RecordingManager._disk_free_gb(): round(usage.free / (1024**3), 2)
RmDiskFreeGb(free_milli) == Round2(free_milli)

\* RecordingManager._assert_disk_space()
RmAssertDiskSpace(free_milli, min_gb) ==
    IF RmDiskFreeGb(free_milli) < Milli(min_gb) THEN Raised("RuntimeError")
    ELSE Returned(<< >>)

\* RigState._disk_status(): free_gb = round(usage.free / (1024**3), 2)
RsDiskStatusFreeGb(free_milli) == Round2(free_milli)

\* RigState._ensure_storage_capacity()
RsEnsureStorageCapacity(free_milli, min_gb) ==
    IF RsDiskStatusFreeGb(free_milli) < Milli(min_gb) THEN Raised("ValueError")
    ELSE Returned(<< >>)

\* free_space_ok(path, minimum_gb) compares usage.free / (1024**3) as it is.
Call_free_space_ok ==
    /\ sys = "FN" /\ fnCall = "none"
    /\ \E free \in DiskUsageMilliGb, minimum_gb \in MinFreeGbValues :
         FnCalled("free_space_ok", [free |-> free, minimum_gb |-> minimum_gb],
                  Returned(free_space_ok([free |-> free], Milli(minimum_gb))))

Call_RecordingManager_assert_disk_space ==
    /\ sys = "FN" /\ fnCall = "none"
    /\ \E free \in DiskUsageMilliGb, minimum_gb \in MinFreeGbValues :
         FnCalled("RecordingManager._assert_disk_space",
                  [free |-> free, minimum_gb |-> minimum_gb],
                  RmAssertDiskSpace(free, minimum_gb))

Call_RigState_ensure_storage_capacity ==
    /\ sys = "FN" /\ fnCall = "none"
    /\ \E free \in DiskUsageMilliGb, minimum_gb \in MinFreeGbValues :
         FnCalled("RigState._ensure_storage_capacity",
                  [free |-> free, minimum_gb |-> minimum_gb],
                  RsEnsureStorageCapacity(free, minimum_gb))

\* ---- the estimate of the recording time left ----

\* Inputs of the estimate: free space in whole GB and bitrates in Mbps, none
\* of whose quotients is a whole number of minutes.
EstimateFreeGb == {0, 12, 120}
EstimateBitrates == {0, 30, 50}

\* status._estimate_record_time_minutes(free_gb, bitrate_mbps):
\* mb_per_sec = bitrate_mbps / 8; gb_per_minute = (mb_per_sec * 60) / 1024;
\* 0 if gb_per_minute == 0, else int(free_gb / gb_per_minute), which is the
\* floor of free_gb * 1024 * 8 / (bitrate_mbps * 60).
estimate_record_time_minutes(free_gb, bitrate_mbps) ==
    IF bitrate_mbps * 60 = 0 THEN 0
    ELSE (free_gb * 1024 * 8) \div (bitrate_mbps * 60)

\* RigState._disk_status(): est_minutes = None; `if bitrate_mbps:` then
\* int(free_gb / gb_per_minute) if gb_per_minute else 0.
RsEstimatedMinutes(free_gb, bitrate_mbps) ==
    IF bitrate_mbps = 0 THEN << >>
    ELSE IF bitrate_mbps * 60 = 0 THEN << 0 >>
    ELSE << (free_gb * 1024 * 8) \div (bitrate_mbps * 60) >>

Call_estimate_record_time_minutes ==
    /\ sys = "FN" /\ fnCall = "none"
    /\ \E free_gb \in EstimateFreeGb, bitrate_mbps \in EstimateBitrates :
         FnCalled("_estimate_record_time_minutes",
                  [free_gb |-> free_gb, bitrate_mbps |-> bitrate_mbps],
                  Returned(<< estimate_record_time_minutes(free_gb, bitrate_mbps) >>))

Call_RigState_disk_status ==
    /\ sys = "FN" /\ fnCall = "none"
    /\ \E free_gb \in EstimateFreeGb, bitrate_mbps \in EstimateBitrates :
         FnCalled("RigState._disk_status",
                  [free_gb |-> free_gb, bitrate_mbps |-> bitrate_mbps],
                  Returned(RsEstimatedMinutes(free_gb, bitrate_mbps)))

FnInit ==
    /\ fnCall = "none"
    /\ fnArgs = << >>
    /\ fnRet = Returned(<< >>)

FnNext ==
    \/ Call_all_gates
    \/ Call_chrony_telemetry
    \/ Call_RecorderController_run_self_test
    \/ Call_RigState_run_self_test
    \/ Call_self_test
    \/ Call_sync_status
    \/ Call_RigState_sync_status
    \/ Call_RigState_warnings
    \/ Call_RecordingManager_list_recordings
    \/ Call_RecordingManager_mark_offloaded
    \/ Call_RecordingManager_cleanup_offloaded
    \/ Call_free_space_ok
    \/ Call_RecordingManager_assert_disk_space
    \/ Call_RigState_ensure_storage_capacity
    \/ Call_estimate_record_time_minutes
    \/ Call_RigState_disk_status

(* ======================================================================= *)
(*     services/sync/agent.py (SyncAgent), and the role a node reports     *)
(* ======================================================================= *)

CameraIds == {"CAM_A", "CAM_B"}
SyIdsValues == [camera_id : CameraIds, ntp_master_id : CameraIds]

\* The host: systemctl is there and starts chronyd ("ok"), is there and
\* does not start it ("failed"), or is not installed; chronyc answers, is
\* not installed, or runs into its timeout of one second; stdout is what
\* `chronyc tracking` prints while chronyd runs. None of it changes.
SyEnvs == [systemctl : {"ok", "failed", "missing"}, chronyc : {"ok", "missing", "timeout"},
           stdout : {"value", "noline"}]
MasterSource == "master"
PoolSource == "pool"
NoError == << >>

\* RigState._role(), and the role status._sync_status() computes
SyRoleOf(ids) == IF ids.camera_id = ids.ntp_master_id THEN "master" ELSE "client"

\* SyncAgent._chrony_active(): `systemctl is-active chronyd` prints "active"
SyChronyActive(env, running) == env.systemctl # "missing" /\ running

\* SyncAgent._start_chrony(errors): `systemctl start chronyd`, check=False
SyStartChrony(env, running, errors) ==
    IF env.systemctl = "missing"
    THEN [running |-> running,
          errors |-> Append(errors, "systemctl missing; cannot start chronyd")]
    ELSE [running |-> running \/ env.systemctl = "ok", errors |-> errors]

\* A variant of _prefer_master that drops the server when chronyd has it
\* among its sources already.
SyPreferMasterToggling(env, running, sources, errors) ==
    IF env.chronyc = "missing"
    THEN [sources |-> sources,
          errors |-> Append(errors, "chronyc missing; cannot set preferred server")]
    ELSE IF env.chronyc = "timeout"
    THEN [sources |-> sources, errors |-> Append(errors, "chronyc add server timeout")]
    ELSE [sources |-> IF ~running THEN sources
                      ELSE IF MasterSource \in sources THEN sources \ {MasterSource}
                      ELSE sources \cup {MasterSource},
          errors |-> errors]

\* SyncAgent._prefer_master(master_host, errors): `chronyc add server
\* master_host`, check=False; chronyd adds the server unless it has it, and
\* chronyc reaches no daemon that does not run.
SyPreferMaster(env, running, sources, errors) ==
    IF env.chronyc = "missing"
    THEN [sources |-> sources,
          errors |-> Append(errors, "chronyc missing; cannot set preferred server")]
    ELSE IF env.chronyc = "timeout"
    THEN [sources |-> sources, errors |-> Append(errors, "chronyc add server timeout")]
    ELSE [sources |-> IF running THEN sources \cup {MasterSource} ELSE sources,
          errors |-> errors]

\* SyncAgent._chrony_sources(): (sources, last_error)
SyChronySources(env, running, sources) ==
    IF env.chronyc = "missing"
    THEN [sources |-> {}, last_error |-> << "chronyc not installed" >>]
    ELSE IF env.chronyc = "timeout"
    THEN [sources |-> {}, last_error |-> << "chronyc sources timeout" >>]
    ELSE IF ~running THEN [sources |-> {}, last_error |-> << "chronyc sources error" >>]
    ELSE [sources |-> sources, last_error |-> NoError]

\* What `chronyc tracking` does on the host, as chrony_telemetry() and
\* _read_chrony_offset() meet it.
SyChronyEnv(env, running) ==
    [run |-> IF env.chronyc = "missing" THEN "missing"
             ELSE IF env.chronyc = "timeout" THEN "timeout" ELSE "ran",
     returncode |-> IF running THEN 0 ELSE 1,
     stdout |-> IF running THEN env.stdout ELSE "noline",
     offset |-> 5]

\* SyncAgent.status(): the SyncHealth; telemetry.role is self.role.
SyStatus(role, env, running, sources) ==
    LET telemetry == chrony_telemetry(SyChronyEnv(env, running)).value
        found == SyChronySources(env, running, sources) IN
    [telemetry |-> [role |-> role, offset_ms |-> telemetry.offset_ms,
                    confidence |-> telemetry.confidence],
     chrony_running |-> SyChronyActive(env, running),
     sources |-> found.sources,
     last_error |-> found.last_error]

\* SyncAgent.configure(): the daemon afterwards, the local `errors`, whether
\* _prefer_master was called, and the SyncHealth returned.
SyConfigure(role, master_host, env, running, sources) ==
    LET started == IF ~SyChronyActive(env, running)
                   THEN SyStartChrony(env, running, << >>)
                   ELSE [running |-> running, errors |-> << >>]
        preferred == role = "client" /\ master_host
        pointed == IF preferred
                   THEN SyPreferMaster(env, started.running, sources, started.errors)
                   ELSE [sources |-> sources, errors |-> started.errors]
        health == SyStatus(role, env, started.running, pointed.sources) IN
    [running |-> started.running,
     sources |-> pointed.sources,
     errors |-> pointed.errors,
     preferred |-> preferred,
     health |-> IF pointed.errors # << >> /\ health.last_error = NoError
                THEN [health EXCEPT !.last_error = pointed.errors]
                ELSE health]

\* A call in the log: the role its report carries, configure's local `errors`
\* and whether it called _prefer_master, and the SyncHealth.
SyCalled(call, role, errors, preferred, health) ==
    syLog' = Append(syLog, [call |-> call, role |-> role, errors |-> errors,
                            preferred |-> preferred, health |-> health])

\* SyncAgent.configure(), first called by RigState.__init__()
SY_configure ==
    /\ sys = "SY" /\ syNode = "RigState" /\ Len(syLog) < MaxCalls
    /\ LET done == SyConfigure(syRole, syMasterHost, syEnv, syRunning, sySources) IN
         /\ syRunning' = done.running
         /\ sySources' = done.sources
         /\ SyCalled("configure", done.health.telemetry.role, done.errors, done.preferred,
                     done.health)
    /\ UNCHANGED <<sys, rcVars, rmVars, rsVars, recVars, fnVars>>
    /\ UNCHANGED <<syNode, syIds, syBoot, syRole, syMasterHost, syEnv>>

\* RigState.current_status(): self.sync_agent.status(), whose telemetry.role
\* _sync_status_from_health copies into the report.
SY_status ==
    /\ sys = "SY" /\ syNode = "RigState" /\ Len(syLog) \in 1..(MaxCalls - 1)
    /\ LET health == SyStatus(syRole, syEnv, syRunning, sySources) IN
         SyCalled("status", health.telemetry.role, << >>, FALSE, health)
    /\ UNCHANGED <<sys, rcVars, rmVars, rsVars, recVars, fnVars>>
    /\ UNCHANGED <<syNode, syIds, syBoot, syRole, syMasterHost, syEnv, syRunning, sySources>>

\* status._sync_status() of main.py's node: the role is computed from the
\* settings at every call.
SY_sync_status ==
    /\ sys = "SY" /\ syNode = "main" /\ Len(syLog) < MaxCalls
    /\ LET sync == SyncStatusOf(SyChronyEnv(syEnv, syRunning)).value IN
         SyCalled("_sync_status", SyRoleOf(syIds), << >>, FALSE,
                  [telemetry |-> [role |-> SyRoleOf(syIds), offset_ms |-> sync.offset_ms,
                                  confidence |-> sync.confidence],
                   chrony_running |-> FALSE, sources |-> {}, last_error |-> NoError])
    /\ UNCHANGED <<sys, rcVars, rmVars, rsVars, recVars, fnVars>>
    /\ UNCHANGED <<syNode, syIds, syBoot, syRole, syMasterHost, syEnv, syRunning, sySources>>

\* update_config (RigState.update_config, main.update_config): camera_id and
\* ntp_master_id are fields of ConfigUpdate, set with setattr.
SY_update_config ==
    /\ sys = "SY"
    /\ syNode = "RigState" => Len(syLog) >= 1
    /\ \E ids \in SyIdsValues : ids # syIds /\ syIds' = ids
    /\ UNCHANGED <<sys, rcVars, rmVars, rsVars, recVars, fnVars>>
    /\ UNCHANGED <<syNode, syBoot, syRole, syMasterHost, syEnv, syRunning, sySources, syLog>>

\* A node at start-up: RigState.__init__() has built its SyncAgent from
\* _role() and _master_host(role), which is set for every client.
SyInit ==
    /\ syNode \in {"RigState", "main"}
    /\ syIds \in SyIdsValues
    /\ syBoot = syIds
    /\ syRole = IF syNode = "RigState" THEN SyRoleOf(syIds) ELSE "none"
    /\ syMasterHost = (syNode = "RigState" /\ SyRoleOf(syIds) = "client")
    /\ syEnv \in SyEnvs
    /\ syRunning \in BOOLEAN
    /\ sySources \in SUBSET {PoolSource, MasterSource}
    /\ syLog = << >>

SyNext == SY_configure \/ SY_status \/ SY_sync_status \/ SY_update_config

SyIdle ==
    /\ syNode = "RigState"
    /\ syIds = [camera_id |-> "CAM_A", ntp_master_id |-> "CAM_A"]
    /\ syBoot = syIds
    /\ syRole = "master"
    /\ syMasterHost = FALSE
    /\ syEnv = [systemctl |-> "ok", chronyc |-> "ok", stdout |-> "value"]
    /\ syRunning = FALSE
    /\ sySources = {}
    /\ syLog = << >>

RcIdle == RcInit /\ rcSimulate = FALSE
RmIdle == RmInit /\ rmFree = MaxFreeGb
RsIdle == RsInit /\ rsFsFree = free_space_min_gb

InitRC == sys = "RC" /\ RcInit /\ RmIdle /\ RsIdle /\ RecInit /\ FnInit /\ SyIdle
InitRM == sys = "RM" /\ RmInit /\ RcIdle /\ RsIdle /\ RecInit /\ FnInit /\ SyIdle
InitRS == sys = "RS" /\ RsInit /\ RcIdle /\ RmIdle /\ RecInit /\ FnInit /\ SyIdle
InitREC == sys = "REC" /\ RecInit /\ RcIdle /\ RmIdle /\ RsIdle /\ FnInit /\ SyIdle
InitFN == sys = "FN" /\ FnInit /\ RcIdle /\ RmIdle /\ RsIdle /\ RecInit /\ SyIdle
InitSY == sys = "SY" /\ SyInit /\ RcIdle /\ RmIdle /\ RsIdle /\ RecInit /\ FnInit

\* A node's sync agent and the role it reports.
SpecSync == InitSY /\ [][SyNext]_vars

\* Single calls of the functions.
SpecFN == InitFN /\ [][FnNext]_vars

\* RecorderController alone.
SpecRC == InitRC /\ [][RcNext]_vars
\* RecordingManager and its handlers alone.
SpecRM == InitRM /\ [][RmNext]_vars
\* RigState and its handlers alone.
SpecRS == InitRS /\ [][RsNext]_vars
\* Recorder alone.
SpecREC == InitREC /\ [][RecNext]_vars
\* Either of the two locked session controllers.
SpecCtl == (InitRC \/ InitRM) /\ [][RcNext \/ RmNext]_vars
\* Either of the two stores that evict offloaded recordings.
SpecStore == (InitRM \/ InitRS) /\ [][RmNext \/ RsNext]_vars

\* Both status reports: status.current_status with RecordingManager.state,
\* RigState.current_status, and single calls of the functions they use.
SpecStatus == (InitRM \/ InitRS \/ InitFN) /\ [][RmNext \/ RmReadNext \/ RsNext \/ FnNext]_vars

\* The handlers of RigState that begin and end a session.
RsSessionNext ==
    \/ RS_tick
    \/ \E t \in Clients :
          \/ RS_start_check(t) \/ RS_start_recording(t) \/ RS_stop_recording(t)
          \/ RS_test_start(t) \/ RS_test_finish(t)

\* Reads of the session state while sessions start, stop and are finalized:
\* RecordingManager.state, and RigState._recording_state.
SpecRead == (InitRM \/ InitRS) /\ [][RmNext \/ RM_state \/ RsSessionNext \/ RsReadNext]_vars

\* RecorderController on a host whose system clock may be set back.
RcClockNext == RcNext \/ RC_clock_back
SpecRcClock == InitRC /\ [][RcClockNext]_vars

(* ======================================================================= *)
(*                              properties                                 *)
(* ======================================================================= *)

\* Sessions created by RecorderController.start that no stop() has taken out
\* of the active slot yet.
RcUntaken == {s \in Sids : s < rcNext /\ rcTakers[s] = 0}

\* Sessions created by RecordingManager.start_recording whose worker thread
\* has not ended.
RmUnfinished == {s \in Sids : s < rmNext /\ rmW[s] # "dead"}

\* C1: under every interleaving of start calls, on RecorderController.start
\* and on RecordingManager.start_recording alike, a call gets past the
\* active-session check only while the slot is empty and at most one call is
\* past it at a time; the call that succeeds has registered its own session;
\* a call is refused with 'recording already active' only while a session is
\* active; and the sessions started with no stop since are at most the one in
\* the slot.
C1_OneStartWins ==
    /\ Cardinality({t \in Clients : rcPc[t] = "start_body" \/ rcOut[t] = "ok"}) <= 1
    /\ \A t \in Clients :
         /\ rcPc[t] = "start_body" => rcActive = 0
         /\ rcOut[t] = "ok" => rcActive # 0 /\ rcActive = rcNext - 1
         /\ rcOut[t] = "active" =>
              rcActive # 0 /\ rcExc[t] = << "recording already active" >>
    /\ RcUntaken \subseteq {rcActive}
    /\ Cardinality({t \in Clients : rmPc[t] = "start_body" \/ rmOut[t] = "ok"}) <= 1
    /\ \A t \in Clients :
         /\ rmPc[t] = "start_body" => rmCurrent = 0
         /\ rmOut[t] = "ok" => rmCurrent # 0 /\ rmCurrent = rmNext - 1
         /\ rmOut[t] = "active" => rmCurrent # 0
    /\ RmUnfinished \subseteq {rmCurrent}

\* C1 happens: with no stop so far, one start call has registered a session
\* and a second call is being refused with 'recording already active'.
C1_SecondStartRefused ==
    /\ sys = "RC"
    /\ \A s \in Sids : rcTakers[s] = 0
    /\ rcActive = 1
    /\ \E t \in Clients : rcPc[t] = "leave" /\ rcOut[t] = "active"

\* RecorderController sessions whose stop() has run to its end.
RcFinalized == {s \in Sids : /\ rcTakers[s] > 0
                             /\ \A t \in RcThreads : rcRecord[t] # s}

\* C2: under every interleaving of an explicit stop with the automatic stop,
\* a session is taken out of the active slot by at most one stop() and its
\* manifest is written at most once; once its finalization has run to the
\* end without an I/O error the manifest has been written exactly once; and a
\* stop that finds the slot empty answers 'no active recording'.
C2_OneManifestPerSession ==
    /\ \A s \in Sids :
         /\ rcTakers[s] <= 1 /\ rcWrites[s] <= 1
         /\ s \in RcFinalized \ rcFault => rcWrites[s] = 1
         /\ rmWrites[s] <= 1
         /\ (s < rmNext /\ rmW[s] = "dead" /\ s \notin rmFault) => rmWrites[s] = 1
    /\ \A t \in RcThreads : rcOut[t] = "noactive" => rcActive = 0 /\ rcRecord[t] = 0
    /\ \A t \in Clients : rmOut[t] = "noactive" => rmCurrent = 0

\* C2 happens: the explicit stop has finalized a session with a target
\* duration and written its manifest, and that session's _stop_after thread
\* finds no active recording.
C2_TimerFindsNoSession ==
    /\ sys = "RC"
    /\ \E s \in Sids :
         /\ rcSess[s].test
         /\ rcWrites[s] = 1
         /\ rcPc[RcTimerOf(s)] = "leave"
         /\ rcOut[RcTimerOf(s)] = "noactive"

\* RigState.start_recording accepts the request of thread t in this step.
RsStartAccepted(t) == RS_start_recording(t) /\ RsCapacityOk

\* C3: of the start requests handled concurrently by app.start_recording and
\* RigState.start_recording, none is accepted while a session accepted before
\* is still the active one.
C3_NoSecondAcceptedStart ==
    [][\A t \in Clients :
         RsStartAccepted(t) => rsActiveId = NoFile \/ rsActiveId[1] = "TEST"]_vars

\* C4: RecorderController never has two pipeline processes alive at once.
C4_OnePipelineAlive == Cardinality({s \in Sids : RcAlive(s)}) <= 1

\* C5: when RecorderController.stop computes the checksum, the session's
\* pipeline process has exited.
C5_ChecksumAfterExit ==
    [][\A t \in RcThreads :
         (rcPc[t] = "stop_sum" /\ rcPc'[t] = "stop_write") => ~RcAlive(rcRecord[t])]_vars

\* Manifests of RecordingManager that this step removes.
RmRemoved == {n \in Names : rmManifests[n] # NoRmManifest /\ rmManifests'[n] = NoRmManifest}

\* Records of RigState that this step removes though their offloaded flag was
\* false before the step.
RsRemovedUnflagged ==
    {f \in RsFiles : /\ rsRecordings[f].there /\ ~rsRecordings'[f].there
                     /\ ~rsRecordings[f].offloaded}

\* C6: whatever the free space, free_space_min_gb and delete_after_confirm
\* are, in any sequence of start, stop, confirm and cleanup operations every
\* manifest RecordingManager.cleanup_offloaded removes was flagged offloaded,
\* and the only record RigState removes though its flag was false before the
\* call is the one record a confirm_offload call flags itself before it
\* removes it (run_test_recording deleting its own test clip is no eviction).
C6_EvictsOnlyOffloaded ==
    [][/\ \A n \in RmRemoved : rmManifests[n].offloaded
       /\ \A f \in RsRemovedUnflagged :
            \/ \E t \in Clients : rsPc[t] = "test_finish" /\ rsPc'[t] = "idle"
            \/ /\ Cardinality(RsRemovedUnflagged) = 1
               /\ \E value \in RsChecksumValues :
                           rsRecordings' = RsConfirmed(f, value).recs]_vars

\* C6 happens: under space pressure RecordingManager has evicted the
\* offloaded manifest of one session and kept the manifest of another
\* session, which is not offloaded.
C6_EvictedOneKeptOther ==
    /\ sys = "RM"
    /\ \E s1 \in Sids, s2 \in Sids :
         /\ rmWrites[s1] = 1 /\ rmWrites[s2] = 1
         /\ rmSess[s1].name # rmSess[s2].name
         /\ rmManifests[rmSess[s1].name] = NoRmManifest
         /\ rmManifests[rmSess[s2].name] # NoRmManifest
         /\ ~rmManifests[rmSess[s2].name].offloaded
    /\ ~rmDelete

\* C7: a stop_recording call made while a launched session of Recorder is not
\* finalized yet goes on to finalize it.
C7_StopFinalizesLaunched ==
    [][\A t \in Clients :
         (REC_stop_enter(t) /\ recProcess # 0) => recPc'[t] = "stop_wait"]_vars

\* C8: RecordingManager is never left with a session in the active slot whose
\* worker thread has ended.
C8_NeverStuckActive == rmCurrent # 0 => rmW[rmCurrent] # "dead"

\* C9: in RigState, while an accepted session is the active one, a step of
\* any operation other than stop_recording and start_recording leaves
\* camera_status.recording true and active_recording_id unchanged.
C9_ActiveUntilStop ==
    [][(rsRecording /\ rsActiveId # NoFile /\ rsActiveId[1] # "TEST") =>
          \/ rsRecording' /\ rsActiveId' = rsActiveId
          \/ \E t \in Clients : RS_stop_recording(t) \/ RS_start_recording(t)]_vars

\* The reasons of the gates of reports that are not ok, in the gates' order.
RECURSIVE FailedReasonsFrom(_, _)
FailedReasonsFrom(reports, i) ==
    IF i > Len(reports) THEN << >>
    ELSE IF reports[i].ok THEN FailedReasonsFrom(reports, i + 1)
    ELSE << reports[i].reason >> \o FailedReasonsFrom(reports, i + 1)

\* C10: a RecorderController.start call whose gates report a failure is
\* rejected, and the error it raises joins the reasons of all failed gates;
\* a call succeeds only with every gate ok; and at the rejection no session
\* is active and the session the call would have created has no pipeline
\* process and no output file.
C10_GateFailureRejects ==
    \A t \in Clients :
       /\ rcOut[t] = "ok" => \A i \in 1..Len(rcReports[t]) : rcReports[t][i].ok
       /\ (rcPc[t] = "leave" /\ rcReports[t] # NoReports
             /\ \E i \in 1..Len(rcReports[t]) : ~rcReports[t][i].ok) =>
            /\ rcOut[t] = "gates"
            /\ rcExc[t] = FailedReasonsFrom(rcReports[t], 1)
            /\ rcActive = 0
            /\ rcNext <= MaxSessions
            /\ rcProc[rcNext] = "unborn" /\ ~rcFile[rcNext]

\* C10 happens: a start call is being rejected because two or more gates
\* failed.
C10_TwoGatesFailed ==
    /\ sys = "RC"
    /\ \E t \in Clients :
         /\ rcPc[t] = "leave" /\ rcOut[t] = "gates"
         /\ Len(rcExc[t]) >= 2

\* C11: a confirm request whose checksum differs from the checksum recorded
\* in the matching manifest of RecordingManager is answered with the
\* checksum-mismatch error: the request changes no manifest, and the handler
\* does not go on to cleanup_offloaded().
C11_MismatchLeavesManifest ==
    [][\A t \in Clients, session_id \in Names, file_sid \in Sids,
          checksum \in RmChecksumValues :
         (/\ sys = "RM" /\ rmPc[t] = "idle"
          /\ RmMatch(session_id, TRUE, file_sid) # {}
          /\ rmManifests[session_id].checksum \notin {"null", checksum}
          /\ RmConfirm(t, session_id, TRUE, file_sid, checksum))
         => /\ rmManifests' = rmManifests
            /\ rmPc'[t] = "idle"]_vars

\* C11 happens: a manifest with a recorded checksum and offloaded = false is
\* stored while a client is free to send the confirmation with another
\* checksum; the rejection leaves this very state.
C11_RecordedChecksumUnconfirmed ==
    /\ sys = "RM"
    /\ \E n \in Names :
         /\ rmManifests[n] # NoRmManifest
         /\ rmManifests[n].checksum = "sha256"
         /\ ~rmManifests[n].offloaded
    /\ \E t \in Clients : rmPc[t] = "idle"

\* C12: a confirmation sent to RigState whose checksum differs from the
\* checksum already recorded for the recording leaves the recording as it
\* was: its checksum, its offloaded flag and its place in the recordings map.
C12_ConflictingChecksumRejected ==
    [][\A t \in Clients, request \in RsRequests :
         (/\ RsFound(request.session_id, request.file)
          /\ rsRecordings[request.file].checksum \notin {"null", request.value}
          /\ RsConfirm(t, request.session_id, request.file, request.sha256,
                       request.value))
         => /\ rsRecordings'[request.file] = rsRecordings[request.file]
            /\ rsOrder' = rsOrder]_vars

C14_ConfirmTouchesOnlyFlag ==
    [][\A t \in Clients :
         /\ (sys = "RM" /\ rmPc[t] = "idle") =>
              \A request \in RmRequests :
                (/\ rmManifests[request.session_id] # NoRmManifest
                 /\ request.camera_ok
                 /\ rmManifests[request.session_id].sid = request.file_sid
                 /\ rmManifests[request.session_id].checksum
                      \in {"null", request.checksum}
                 /\ RmConfirm(t, request.session_id, request.camera_ok,
                              request.file_sid, request.checksum))
                => rmManifests' =
                     [rmManifests EXCEPT ![request.session_id].offloaded = TRUE]
         /\ (sys = "RS" /\ rsPc[t] = "idle") =>
              \A request \in RsRequests :
                (/\ rsRecordings[request.file].there
                 /\ request.file[1] = request.session_id
                 /\ request.sha256
                 /\ RsConfirm(t, request.session_id, request.file, request.sha256,
                              request.value))
                => \A f \in RsFiles :
                     rsRecordings'[f].there =>
                       /\ rsRecordings'[f].duration = rsRecordings[f].duration
                       /\ rsRecordings'[f].checksum = rsRecordings[f].checksum]_vars

\* The free space cleanup_offloaded() has read last when it comes to the
\* manifest n it removes in this step: the free space at its start, raised by
\* each file it has unlinked before.
RmFreeBefore(n) ==
    LET idx(m) == CHOOSE i \in 1..MaxSessions : NameSeq[i] = m
        earlier == {m \in RmRemoved : idx(m) < idx(n) /\ rmFiles[rmManifests[m].sid]}
        free == rmFree + Cardinality(earlier) IN
    IF free > MaxFreeGb THEN MaxFreeGb ELSE free

\* Records of RigState that this step removes, the step of run_test_recording
\* that deletes its own clip aside.
RsEvicted ==
    IF \E t \in Clients : rsPc[t] = "test_finish" /\ rsPc'[t] = "idle" THEN {}
    ELSE {f \in RsFiles : rsRecordings[f].there /\ ~rsRecordings'[f].there}

\* C15: with delete_after_confirm disabled, every manifest
\* RecordingManager.cleanup_offloaded removes is removed while the free space
\* read last, at the start or after the deletion before, is below
\* free_space_min_gb; and RigState removes records only while the free space
\* of the filesystem is below free_space_min_gb.
C15_EvictsOnlyUnderPressure ==
    [][/\ (sys = "RM" /\ ~rmDelete) =>
            \A n \in RmRemoved : RmFreeBefore(n) < rmMinFree
       /\ (sys = "RS" /\ ~rsDelete) =>
            (RsEvicted # {} => rsFsFree < rsMinFree)]_vars

\* C16: with delete_after_confirm enabled, when a confirmation has completed,
\* its eviction included, no manifest of RecordingManager and no record of
\* RigState with offloaded = true is left, whatever the free space.
C16_ConfirmedAreGone ==
    [][\A t \in Clients :
         /\ (sys = "RM" /\ rmDelete /\ rmPc[t] = "cleanup" /\ rmPc'[t] = "idle") =>
              \A n \in Names :
                rmManifests'[n] = NoRmManifest \/ ~rmManifests'[n].offloaded
         /\ (sys = "RS" /\ rsDelete /\ rsPc[t] = "idle") =>
              \A request \in RsRequests :
                (/\ rsRecordings[request.file].there
                 /\ request.file[1] = request.session_id
                 /\ request.sha256
                 /\ RsConfirm(t, request.session_id, request.file, request.sha256,
                              request.value))
                => \A f \in RsFiles :
                     ~(rsRecordings'[f].there /\ rsRecordings'[f].offloaded)]_vars

\* C17: a session started with a target duration is finalized without an
\* explicit stop, so while it sits in the active slot its automatic stop is
\* still to come: in RecorderController, in simulate mode or not, the timer
\* thread of the session has been started and has not ended; in
\* RecordingManager, I/O errors aside, the worker of the session has not
\* ended.
C17_AutoStopPending ==
    /\ \A s \in Sids :
         (sys = "RC" /\ rcActive = s /\ rcSess[s].test) =>
           rcPc[RcTimerOf(s)] \notin {"unborn", "dead"}
    /\ \A s \in Sids :
         (sys = "RM" /\ rmCurrent = s /\ rmSess[s].test /\ s \notin rmFault) =>
           rmW[s] # "dead"

\* C18: the manifest that the automatic stop writes for a test-mode session
\* nobody has stopped explicitly has the target duration of ten seconds as
\* its duration, and offloaded = false: in RecorderController the manifest a
\* timer thread writes, in RecordingManager the manifest the worker writes
\* while the stop Event is not set.
C18_AutoStopDurationIsTarget ==
    [][/\ \A t \in RcTimers :
            (/\ sys = "RC" /\ rcPc[t] = "stop_write"
             /\ rcSess[rcRecord[t]].test
             /\ rcWrites'[rcRecord[t]] = rcWrites[rcRecord[t]] + 1)
            => rcManifests'[rcSess[rcRecord[t]].name].duration = TestTargetSeconds
       /\ \A s \in Sids :
            (/\ sys = "RM" /\ rmW[s] = "finalize"
             /\ rmSess[s].test /\ ~rmEventSet[s]
             /\ rmWrites'[s] = rmWrites[s] + 1)
            => /\ rmManifests'[rmSess[s].name].duration = TestTargetSeconds
               /\ ~rmManifests'[rmSess[s].name].offloaded]_vars

\* C19: every manifest that a stop writes after a successful start has a
\* duration >= 0, and its checksum is null exactly when the output file did
\* not exist when the checksum was computed: in RecorderController the values
\* stop() computes and then writes, in RecordingManager the manifest that
\* _finalize_recording writes.
C19_DurationAndChecksumOfManifest ==
    [][/\ \A t \in RcThreads :
            (sys = "RC" /\ rcPc[t] = "stop_sum" /\ rcPc'[t] = "stop_write")
            => /\ rcSum'[t].duration >= 0
               /\ (rcSum'[t].checksum = "null") <=> ~rcFile[rcRecord[t]]
       /\ \A t \in RcThreads :
            (/\ sys = "RC" /\ rcPc[t] = "stop_write"
             /\ rcWrites'[rcRecord[t]] = rcWrites[rcRecord[t]] + 1)
            => /\ rcManifests'[rcSess[rcRecord[t]].name].duration = rcSum[t].duration
               /\ rcManifests'[rcSess[rcRecord[t]].name].checksum = rcSum[t].checksum
       /\ \A s \in Sids :
            (sys = "RM" /\ rmWrites'[s] = rmWrites[s] + 1)
            => /\ rmManifests'[rmSess[s].name].duration >= 0
               /\ (rmManifests'[rmSess[s].name].checksum = "null") <=> ~rmFiles[s]]_vars

\* C20: temperature_safe and battery_safe answer a missing sensor file with
\* ok = true and a reason that is not empty; and in RecorderController.start
\* the report of a missing sensor is never among the failures: its reason is
\* not part of the error, and a call whose other gates are all ok is not
\* rejected by the gates.
C20_AbsentSensorNeverBlocks ==
    /\ \A r \in ThermalReadings :
         r.st = "absent" =>
           /\ temperature_safe([thermal |-> r]).ok
           /\ temperature_safe([thermal |-> r]).reason # NoReason
    /\ \A r \in BatteryReadings :
         r.st = "absent" =>
           /\ battery_safe([battery |-> r]).ok
           /\ battery_safe([battery |-> r]).reason # NoReason
    /\ \A t \in Clients :
         (sys = "RC" /\ rcPc[t] = "leave" /\ rcReports[t] # NoReports) =>
           /\ \A i \in 1..Len(rcReports[t]) :
                rcReports[t][i].reason \in SensorUnavailable =>
                  /\ rcReports[t][i].ok
                  /\ \A j \in 1..Len(rcExc[t]) : rcExc[t][j] # rcReports[t][i].reason
           /\ (\A i \in 1..Len(rcReports[t]) :
                 rcReports[t][i].ok \/ rcReports[t][i].reason \in SensorUnavailable)
                => rcOut[t] # "gates"

\* C20 happens: a start call succeeds on a host with neither a thermal zone
\* file nor a battery capacity file.
C20_StartedWithoutSensors ==
    /\ sys = "RC"
    /\ \E t \in Clients :
         /\ rcPc[t] = "leave" /\ rcOut[t] = "ok"
         /\ rcReports[t] # NoReports
         /\ rcReports[t][4] = GateReport(TRUE, "Temperature sensor unavailable")
         /\ rcReports[t][5] = GateReport(TRUE, "Battery sensor unavailable")
         /\ rcActive # 0

\* C21: no readiness gate raises: whatever the base directory, the disk
\* usage query and the sensor files do, all_gates returns, and what it
\* returns is five reports (device, writability, free space, temperature,
\* battery), each with an ok flag.
C21_GatesNeverRaise ==
    fnCall = "all_gates" =>
      /\ fnRet.exc = NoException
      /\ Len(fnRet.value) = 5
      /\ \A i \in 1..5 : fnRet.value[i].ok \in BOOLEAN

\* C22: a self test that returns reports passed = true exactly when every
\* readiness check it makes passes, and only with the free space at or above
\* the minimum: RecorderController.run_self_test over the five gates,
\* RigState.run_self_test, and the self_test handler over RecordingManager
\* (free space and writable base directory).
C22_SelfTestPassedIffAllChecksPass ==
    /\ (fnCall = "RecorderController.run_self_test" /\ fnRet.exc = NoException) =>
         /\ fnRet.value.passed <=>
              \A i \in 1..5 : all_gates(fnArgs.env, fnArgs.minimum_free_gb)[i].ok
         /\ fnRet.value.passed => fnArgs.env.free >= fnArgs.minimum_free_gb
    /\ (fnCall = "RigState.run_self_test" /\ fnRet.exc = NoException) =>
         (fnRet.value.passed => fnArgs.free >= fnArgs.free_space_min_gb)
    /\ (fnCall = "self_test" /\ fnRet.exc = NoException) =>
         /\ fnRet.value.passed <=>
              (fnArgs.free >= fnArgs.free_space_min_gb /\ fnArgs.writable)
         /\ fnRet.value.passed => fnArgs.free >= fnArgs.free_space_min_gb

TelemetryOutcome(env) ==
    IF env.run # "ran" THEN env.run
    ELSE IF env.returncode # 0 THEN "error"
    ELSE IF env.stdout = "value" THEN "verified"
    ELSE "unparseable"

\* C24: the sync confidence in a status report identifies what happened to
\* the telemetry poll: no poll with another outcome (missing daemon, timeout,
\* daemon error, unparseable report, verified offset) is reported with the
\* same confidence, by status._sync_status and by RigState alike.
C24_ConfidenceIdentifiesFailure ==
    /\ (fnCall = "_sync_status" /\ fnRet.exc = NoException) =>
         \A other \in ChronyEnvs :
            (/\ SyncStatusOf(other).exc = NoException
             /\ SyncStatusOf(other).value.confidence = fnRet.value.confidence)
            => TelemetryOutcome(other) = TelemetryOutcome(fnArgs)
    /\ (fnCall = "RigState._sync_status_from_health" /\ fnRet.exc = NoException) =>
         \A other \in ChronyEnvs :
            (/\ RsSyncStatusOf(other).exc = NoException
             /\ RsSyncStatusOf(other).value.confidence = fnRet.value.confidence)
            => TelemetryOutcome(other) = TelemetryOutcome(fnArgs)

\* C25: a status report made while a session is active whose elapsed time
\* has reached its target duration carries the warning "Recording duration
\* reached; finalizing soon": in status.current_status over RecordingManager
\* for the session that _warnings finds active at both of its reads, and in
\* RigState._warnings for a record that is active and has a duration.
C25_DurationReachedWarned ==
    /\ (/\ fnCall = "status.current_status" /\ fnRet.exc = NoException
        /\ fnArgs.first_active /\ rmCurrent # 0
        /\ Seconds(rmElapsed) >= RmTargetSeconds(rmSess[rmCurrent].test))
       => DurationReached \in fnRet.value.warnings
    /\ (/\ fnCall = "RigState._warnings"
        /\ fnArgs.recording /\ fnArgs.active /\ fnArgs.there
        /\ fnArgs.duration_seconds # 0
        /\ fnArgs.elapsed >= fnArgs.duration_seconds)
       => DurationReached \in fnRet.value.warnings

\* C25 happens: a status report is returned while RecordingManager holds a
\* test session that has run for its ten seconds or more and is not yet
\* finalized.
C25_ReportedPastTarget ==
    /\ fnCall = "status.current_status"
    /\ rmCurrent # 0 /\ rmSess[rmCurrent].test
    /\ Seconds(rmElapsed) >= TestTargetSeconds
    /\ fnRet.value.warnings = {DurationReached}

\* C26: producing a status report (RigState.current_status, the steps of
\* status.current_status) leaves the session state as it was: the active
\* session slot, the recordings and manifests with their offloaded flags, and
\* the configuration.
C26_StatusLeavesSessionState ==
    [][((\E t \in Clients : RS_current_status(t)) \/ RM_status_begin \/ RM_status_end)
       => /\ UNCHANGED <<rsRecording, rsActiveSession, rsActiveId, rsRecordings, rsOrder,
                         rsDelete, rsMinFree>>
          /\ UNCHANGED <<rmCurrent, rmSess, rmFiles, rmManifests, rmLast, rmWorker,
                         rmStopEvent, rmDelete, rmMinFree>>]_vars

\* A status report was returned while a finalized session has its manifest
\* and another session is running.
C26_StatusWithSessions ==
    /\ fnCall = "status.current_status"
    /\ rmCurrent # 0
    /\ \E n \in Names : rmManifests[n] # NoRmManifest

\* C27: a read of the session state that runs while sessions are stopped and
\* finalized never fails and returns either an inactive state without session
\* fields, or an active one whose session_id, file_name and started_at are
\* those of one session; for RecordingManager.state and for
\* RigState._recording_state.
C27_ConsistentSnapshot ==
    /\ fnCall = "RecordingManager.state"
       => /\ fnRet.exc = NoException
          /\ \/ fnRet.value = InactiveState
             \/ /\ fnRet.value.active
                /\ fnRet.value.file_name \in Sids
                /\ fnRet.value.started_at = fnRet.value.file_name
                /\ fnRet.value.session_id = rmSess[fnRet.value.file_name].name
    /\ fnCall = "RigState._recording_state"
       => /\ fnRet.exc = NoException
          /\ \/ fnRet.value = RsInactiveState(FALSE)
             \/ /\ fnRet.value.active
                /\ fnRet.value.file_name # NoFile
                /\ fnRet.value = RsActiveState(TRUE, fnRet.value.file_name)

\* C28: finalizing a session never overwrites or removes the manifest of an
\* earlier finalized session, one started with the same session_id included:
\* every output file whose session wrote its manifest, and that has not been
\* evicted, is the file the manifest under its session's path refers to.
C28_FinalizedFileHasManifest ==
    /\ \A s \in Sids :
         (rcWrites[s] > 0 /\ rcFile[s]) => rcManifests[rcSess[s].name].sid = s
    /\ \A s \in Sids :
         (rmWrites[s] > 0 /\ rmFiles[s]) => rmManifests[rmSess[s].name].sid = s

\* C29: an unparseable manifest of one session does not affect the others:
\* list_recordings returns every session whose manifest parses, mark_offloaded
\* confirms the manifest of a session whose manifest parses, and
\* cleanup_offloaded evicts every offloaded session it is to delete; none of
\* them raises.
C29_CorruptManifestIsolated ==
    /\ fnCall = "RecordingManager.list_recordings"
       => /\ fnRet.exc = NoException
          /\ \A n \in Names :
               fnArgs.dir[n].kind = "ok"
                 => \E i \in 1..Len(fnRet.value) : fnRet.value[i] = n
    /\ (fnCall = "RecordingManager.mark_offloaded"
        /\ fnArgs.dir[fnArgs.session_id].kind = "ok")
       => /\ fnRet.exc = NoException
          /\ fnRet.value.found = << fnArgs.session_id >>
          /\ fnRet.value.dir[fnArgs.session_id].offloaded
    /\ fnCall = "RecordingManager.cleanup_offloaded"
       => /\ fnRet.exc = NoException
          /\ \A n \in Names :
               (fnArgs.delete_after_confirm /\ fnArgs.dir[n].kind = "ok"
                /\ fnArgs.dir[n].offloaded)
                 => fnRet.value.dir[n].kind = "absent"

\* C30: each capacity check admits a session exactly when the free space is
\* at least min_free_gb (not at 8 GB against 10, at 12 GB and at equality), so
\* free_space_ok, RecordingManager._assert_disk_space and
\* RigState._ensure_storage_capacity decide alike on every pair of values.
C30_CapacityChecksAgree ==
    LET has_capacity == fnArgs.free >= Milli(fnArgs.minimum_gb) IN
    /\ fnCall = "free_space_ok"
       => (fnRet.exc = NoException /\ (fnRet.value.ok <=> has_capacity))
    /\ fnCall = "RecordingManager._assert_disk_space"
       => ((fnRet.exc = NoException) <=> has_capacity)
    /\ fnCall = "RigState._ensure_storage_capacity"
       => ((fnRet.exc = NoException) <=> has_capacity)

\* C31: the estimate of the minutes of recording left is 32 for 120 GB free
\* at 30 Mbps; it is the floor of free_gb divided by the GB written per
\* minute at the bitrate, and 0 or undefined at bitrate 0.
C31_EstimateMinutesRemaining ==
    (fnCall \in {"_estimate_record_time_minutes", "RigState._disk_status"})
      => /\ fnRet.exc = NoException
         /\ (fnArgs.free_gb = 120 /\ fnArgs.bitrate_mbps = 30) => fnRet.value = << 32 >>
         /\ fnArgs.bitrate_mbps = 0 => fnRet.value \in {<< >>, << 0 >>}
         /\ fnArgs.bitrate_mbps # 0
              => /\ Len(fnRet.value) = 1
                 /\ fnRet.value[1] * (fnArgs.bitrate_mbps * 60) <= fnArgs.free_gb * 1024 * 8
                 /\ (fnRet.value[1] + 1) * (fnArgs.bitrate_mbps * 60)
                      > fnArgs.free_gb * 1024 * 8

\* C32: SyncAgent.configure is idempotent: on a host that does not change, a
\* configure() after an earlier configure() leaves chronyd as it was (running
\* or not, the same sources) and returns the SyncHealth the earlier one did.
C32_ConfigureIdempotent ==
    [][(/\ Len(syLog') = Len(syLog) + 1
        /\ syLog'[Len(syLog')].call = "configure"
        /\ \E i \in 1..Len(syLog) : syLog[i].call = "configure")
       => /\ syRunning' = syRunning
          /\ sySources' = sySources
          /\ \A i \in 1..Len(syLog) :
               syLog[i].call = "configure"
                 => syLog[i].health = syLog'[Len(syLog')].health]_vars

\* C32 happens: a client was configured twice; chronyd runs with the master
\* among its sources, as the first call reported already.
C32_ConfiguredTwice ==
    /\ Len(syLog) >= 2
    /\ syLog[1].call = "configure" /\ syLog[2].call = "configure"
    /\ syLog[1].preferred
    /\ syLog[1].health.chrony_running
    /\ MasterSource \in syLog[1].health.sources
    /\ syRunning /\ MasterSource \in sySources

\* C33: SyncAgent.configure never fails because of a configuration error: with
\* systemctl or chronyc missing or timing out it returns a SyncHealth with
\* telemetry, every error it met is in the last_error it returns, and a later
\* status() returns telemetry too.
C33_ConfigurationErrorsRecorded ==
    \A i \in 1..Len(syLog) :
      /\ syLog[i].call \in {"configure", "status"}
           => syLog[i].health.telemetry.confidence
                \in {"good", "chrony-unknown", "chrony-parse", "chrony-error",
                     "chrony-missing", "chrony-timeout"}
      /\ syLog[i].call = "configure"
           => \A k \in 1..Len(syLog[i].errors) :
                \E m \in 1..Len(syLog[i].health.last_error) :
                  syLog[i].health.last_error[m] = syLog[i].errors[k]

\* C34: the role a node reports is the one it had at start-up, 'master' if
\* camera_id equalled ntp_master_id then and 'client' otherwise, whatever
\* update_config does to either afterwards; and configure() points only
\* clients at a master host.
C34_RoleFixedAtStartup ==
    \A i \in 1..Len(syLog) :
      /\ syLog[i].role = SyRoleOf(syBoot)
      /\ syLog[i].preferred => SyRoleOf(syBoot) = "client"

\* C35: Recorder.start_recording is rejected with 'Recording already active'
\* whenever a pipeline runs, and under every interleaving of start_recording
\* and stop_recording calls no more than one pipeline process is launched and
\* tracked at a time: every process that runs is the one in _process.
C35_OnePipelineTracked ==
    /\ [][\A t \in Clients :
            (REC_start_enter(t) /\ RecRecording) => recOut'[t] = "active"]_vars
    /\ [](\A s \in Sids : recProc[s] \in {"running", "termsent"} => recProcess = s)

\* ---------------------------------------------------------------------------
\* Completion of stop

\* The steps a thread inside Recorder.start_recording or
\* Recorder.stop_recording takes by itself: a call that has begun runs on.
\* Nothing obliges a caller to begin a call, a running pipeline to exit or to
\* write a diagnostic line.
RecFairness ==
    \A t \in Clients :
        /\ WF_vars(REC_start_launch(t))
        /\ WF_vars(REC_stop_wait(t))
        /\ WF_vars(REC_stop_finish(t))

SpecRecFair == InitREC /\ [][RecNext]_vars /\ RecFairness

\* The manifest holds an entry for the session whose destination is s.
RecHasEntry(s) == \E i \in 1..Len(recEntries) : recEntries[i].file_path = s

\* C36: stop always completes: once stop_recording has sent the termination
\* signal to a session's pipeline, the calls in progress return after a bounded
\* number of steps, and then the active slot is idle and the session's manifest
\* entry has been written.
C36_StopCompletes ==
    \A s \in Sids :
        (recProc[s] = "termsent")
            ~> (/\ \A t \in Clients : recPc[t] = "idle"
                /\ recProcess # s
                /\ RecHasEntry(s))

\* ---------------------------------------------------------------------------
\* The exit code seen by stop_recording

\* C37: a stop_recording call that returns with the pipeline's exit code
\* non-zero and no error line captured leaves last_pipeline_error set to the
\* synthesized "pipeline exited with <code>"; a captured error line is kept
\* unchanged; with exit code 0 the call changes neither last_pipeline_error
\* nor encode_errors.
C37_ExitCodeRecorded ==
    [][\A t \in Clients :
         (/\ REC_stop_enter(t) \/ REC_stop_finish(t)
          /\ recPc'[t] = "idle"
          /\ recProcess # 0)
         => LET code == recCode[recProcess] IN
            /\ (code = "nonzero" /\ recLastError = "None") => recLastError' = "exited"
            /\ (code = "nonzero" /\ recLastError # "None")
                  => recLastError' = recLastError
            /\ code = "zero"
                  => (recLastError' = recLastError /\ recErrors' = recErrors)]_vars

\* ---------------------------------------------------------------------------
\* The counters of a manifest entry

\* What the entry of session s should count: its error lines, and one more
\* for an abnormal exit.
RecFinalErrors(s) == recEmitted[s] + (IF recCode[s] = "nonzero" THEN 1 ELSE 0)

\* C38: the encode_errors of a session's manifest entry is final: it is the
\* number of error lines the session's pipeline wrote plus one for an abnormal
\* exit, and the diagnostic reader of a session counts no line once the
\* session's entry is written or another session has been started.
C38_EntryCountersFinal ==
    /\ [](\A i \in 1..Len(recEntries) :
             recEntries[i].file_path \in Sids
                => recEntries[i].encode_errors = RecFinalErrors(recEntries[i].file_path))
    /\ [][\A s \in Sids :
            (REC_monitor_stderr(s) /\ recErrors' # recErrors)
                => (recDest = s /\ ~RecHasEntry(s))]_vars

\* ---------------------------------------------------------------------------
\* The auto-stop timer and later sessions

\* C39: the auto-stop timer armed for a session only ever stops that session:
\* the record its stop() takes from the active slot, terminates and finalizes
\* is the session the timer was armed for, never a session started later.
C39_TimerStopsOwnSession ==
    \A s \in Sids : rcRecord[RcTimerOf(s)] \in {0, s}

\* ---------------------------------------------------------------------------
\* The active recording of RigState

\* C40: active_recording_id is either unset, with camera_status.recording false
\* and active_session unset, or the key of an entry present in recordings, with
\* camera_status.recording true and active_session that entry's session_id.
C40_ActiveRecordingPresent ==
    IF rsActiveId = NoFile
    THEN ~rsRecording /\ rsActiveSession = "None"
    ELSE /\ rsRecordings[rsActiveId].there
         /\ rsRecording
         /\ rsActiveSession = rsActiveId[1]

=========================================================================
